---- MODULE Spec2Model ----
(***************************************************************************)
(* A model of the wait-free single-producer / single-consumer RingBuffer   *)
(* (RingBuffer.ts) and of its AudioWriter / AudioReader facades.           *)
(*                                                                         *)
(* Every Atomics.load, every Atomics.store and every element assignment of *)
(* copy() is one step of the side that executes it, so that the other side *)
(* can run between any two of them.  Atomics.load / Atomics.store on the   *)
(* two index words are sequentially consistent; the element accesses are   *)
(* plain accesses, which is why the absence of a conflicting access to a   *)
(* slot is stated and checked below rather than assumed.                   *)
(*                                                                         *)
(* Arrays are functions over 0..n-1, as in the source.                     *)
(***************************************************************************)
EXTENDS Integers, Sequences, FiniteSets, TLC

\* ------------------------------------------------------------------ bounds

\* Largest usable capacity (capacity()) a buffer is constructed with.
MaxCap == 3
\* Number of samples the producer hands over in one run.
MaxVal == 5
\* Number of calls that moved data which the call log of a sequential run
\* follows after a push into an empty buffer.
MaxLog == 2

\* The requested capacities of a construction run from -MaxNeg to MaxCap.
MaxNeg == 10

\* The render quantum of the pipeline: the number of samples of one process()
\* call (128 in the source), scaled down.
Quantum == 2
\* The model's frame length, df_get_frame_length(df_model) (longer than the
\* quantum, as with the shipped model), scaled down.
FrameLength == 3
\* The usable capacity of each of the two channels of the pipeline (both
\* SharedArrayBuffers are allocated with the same size), scaled down.
PipeCap == 5
\* The number of process() calls of one run.
MaxTicks == 5
\* The number of commands (SET_BYPASS, STOP) the main thread posts in one run.
MaxPosts == 1
\* The largest number of channels of the worklet's output.
MaxChannels == 2
\* The number of INIT commands a host posts on its own in one run.
MaxInits == 1

\* Longest array handed to push or pop: one more than the largest capacity,
\* so that a call can ask for more than the buffer can ever hold.
MaxLen == MaxCap + 1

\* ------------------------------------------------------------------ values

\* `length` not passed (the parameter is optional).
undefined == 0 - 1

\* What a Float32Array slot holds after `undefined` (a read past the end of
\* an array) has been assigned to it.
NaN == MaxVal + 1

\* Content of index j of an array that is not a sample: what a caller's array
\* held before anything was copied into it.
Stale(j) == 0 - (j + 1)

\* The elements array of a push call made after `base` samples were accepted:
\* from index `offset` on it holds the samples base+1, base+2, ... (a caller
\* offers again what an earlier call did not accept); the elements before
\* `offset` are not offered and hold other content.
Elements(base, n, offset) ==
  [j \in 0 .. n - 1 |-> IF j < offset THEN Stale(j) ELSE base + (j - offset) + 1]

\* The destination array of a pop call before the call: n slots whose prior
\* content is told apart from every sample.
Destination(n) == [j \in 0 .. n - 1 |-> Stale(j)]

\* input[index]: a read past the end of an array yields undefined.
Get(input, index) == IF index \in DOMAIN input THEN input[index] ELSE NaN

\* output[index] = value: a typed array ignores a store past its end.
Put(output, index, value) ==
  IF index \in DOMAIN output THEN [output EXCEPT ![index] = value] ELSE output

Min(a, b) == IF a < b THEN a ELSE b

\* The part of array f at indices from .. from+count-1, as a sequence.
Slice(f, from, count) == [k \in 1 .. count |-> Get(f, from + k - 1)]

\* ------------------------------------------------------------------- state

VARIABLES
  storageCapacity,  \* this._capacity: the number of storage slots (usable + 1)
  storage,          \* this.storage: the slots, a function over 0..storageCapacity-1
  write_ptr,        \* this.write_ptr[0]: written by push only
  read_ptr,         \* this.read_ptr[0]: written by pop only
  prod,             \* the producer's call in progress (or its last call)
  cons,             \* the consumer's call in progress (or its last call)
  nextVal,          \* the number of samples accepted by push so far
  pushed,           \* history: the elements accepted by push, in order
  popped,           \* history: the elements returned by pop, in order
  seqMode,          \* TRUE in a run whose calls never overlap
  log               \* in such a run, the push / pop calls completed since a
                    \* push last found the buffer empty (at most MaxLog)

\* The state outside the one RingBuffer above: the construction of a
\* RingBuffer, and the streaming pipeline (two RingBuffers of their own, the
\* real-time worklet, the background worker, the main thread between them).
VARIABLES
  build,            \* a RingBuffer under construction: the request, the
                    \* SharedArrayBuffer allocated for it, the object built
  raw,              \* the RingBuffer over rawSab (worklet -> worker)
  denoised,         \* the RingBuffer over denoisedSab (worker -> worklet)
  worklet,          \* DeepFilterAudioProcessor: its fields and its place in process()
  worker,           \* DeepFilterWorker: its module variables and its place
                    \* in readFromQueue()
  inbox,            \* messages posted to the worker, not yet handled
  events,           \* messages posted by the worker, not yet handled
  main,             \* the main thread: WorkerManager and the processor
  hist,             \* history: the samples that went through each channel
  inline            \* the processor that runs the model inside the worklet:
                    \* DeepFilterNet3Processor and its DeepFilterAudioProcessor

outside ==
  << build, raw, denoised, worklet, worker, inbox, events, main, hist, inline >>

vars == << storageCapacity, storage, write_ptr, read_ptr, prod, cons,
           nextVal, pushed, popped, seqMode, log, outside >>

shared == << storageCapacity, storage, write_ptr, read_ptr >>

\* ------------------------------------------------------- RingBuffer helpers

\* capacity(): the usable capacity.
capacity == storageCapacity - 1

\* availableReadInternal(rd, wr)
availableReadInternal(rd, wr) ==
  (wr + storageCapacity - rd) % storageCapacity

\* availableWriteInternal without the reserved slot taken off.
availableWriteInternal_NoReserve(rd, wr) ==
  storageCapacity - availableReadInternal(rd, wr)

\* availableWriteInternal(rd, wr)
availableWriteInternal(rd, wr) ==
  capacity - availableReadInternal(rd, wr)

\* The test of full() and of push: (wr + 1) % storageCapacity === rd.
IsFull(rd, wr) == (wr + 1) % storageCapacity = rd

\* The test of empty() and of pop: wr === rd.
IsEmpty(rd, wr) == wr = rd

\* const len = length ?? elements.length
LenOf(length, n) == IF length = undefined THEN n ELSE length

\* ToWrite without the clamp to the free space.
ToWrite_Unclamped(rd, wr, len) == len

\* push: toWrite = Math.min(availableWriteInternal(rd, wr), len)
ToWrite(rd, wr, len) == Min(availableWriteInternal(rd, wr), len)

\* pop: toRead = Math.min(availableReadInternal(rd, wr), len)
ToRead(rd, wr, len) == Min(availableReadInternal(rd, wr), len)

\* firstPart = Math.min(storageCapacity - ptr, count): the span that runs to
\* the end of the storage; the second span is count - firstPart, from slot 0.
FirstPart(ptr, count) == Min(storageCapacity - ptr, count)

\* The storage index that the k-th assignment (k = 0, 1, ...) of the two
\* copy() calls of a push or pop starting at ptr touches.
SlotOf(ptr, count, k) ==
  IF k < FirstPart(ptr, count) THEN ptr + k ELSE 0 + (k - FirstPart(ptr, count))

\* Advance without the wrap-around: the modulo is left out.
Advance_NoWrap(ptr, count) == ptr + count

\* The index published after moving count elements from ptr.
Advance(ptr, count) == (ptr + count) % storageCapacity

\* QueryResult with the two occupancy figures taken for one another.
QueryResult_Swapped(op, rd, wr) ==
  CASE op = "availableRead"  -> availableWriteInternal(rd, wr)
    [] op = "availableWrite" -> availableReadInternal(rd, wr)
    [] op = "empty"          -> IF IsEmpty(rd, wr) THEN 1 ELSE 0
    [] op = "full"           -> IF IsFull(rd, wr) THEN 1 ELSE 0

\* The value an introspection operation returns from the two loaded indices
\* (empty() and full(): 1 for true, 0 for false).
QueryResult(op, rd, wr) ==
  CASE op = "availableRead"  -> availableReadInternal(rd, wr)
    [] op = "availableWrite" -> availableWriteInternal(rd, wr)
    [] op = "empty"          -> IF IsEmpty(rd, wr) THEN 1 ELSE 0
    [] op = "full"           -> IF IsFull(rd, wr) THEN 1 ELSE 0

PushOps  == {"push", "enqueue"}
PopOps   == {"pop", "dequeue"}
QueryOps == {"availableRead", "availableWrite", "empty", "full"}

\* ------------------------------------------------------------- call records

\* A side that is not in a call.  pc: where the side stands ("idle": not in a
\* call; "return": the call has returned ret and the caller has not gone on
\* yet).  n, length, offset: the arguments (n = elements.length); len:
\* length ?? elements.length; count: toWrite or toRead; k: the number of
\* elements copied so far; base: the number of samples accepted before the
\* call (push); dst: the destination array (pop); steps: the steps the
\* RingBuffer call has taken; obs: the last availableWrite() (producer) or
\* availableRead() (consumer) result since the side's last push / pop;
\* promise: that result as it stood when the push / pop was called.
NoCall ==
  [pc |-> "idle", op |-> "none", n |-> 0, length |-> undefined, offset |-> 0,
   rd |-> 0, wr |-> 0, len |-> 0, count |-> 0, k |-> 0, ret |-> 0, steps |-> 0,
   obs |-> undefined, promise |-> undefined, base |-> 0, dst |-> << >>]

DataOps  == {"push", "pop", "dequeue"}

\* The record of a call that starts at pc.
Begin(side, pc, op, n, length, offset, dst) ==
  [NoCall EXCEPT !.pc = pc, !.op = op, !.n = n, !.length = length,
                 !.offset = offset, !.base = nextVal, !.dst = dst,
                 !.promise = IF op \in DataOps THEN side.obs ELSE undefined,
                 !.obs = IF op \in DataOps THEN undefined ELSE side.obs]

\* The record of a call that returns ret.
Return(side, ret) ==
  [side EXCEPT !.pc = "return", !.ret = ret, !.steps = @ + 1]

\* The record of a side whose caller goes on after the call: it remembers
\* what availableWrite() / availableRead() told it.
Resume(side, mine) ==
  [NoCall EXCEPT !.obs = IF side.op = mine THEN side.ret ELSE side.obs]

\* const len = length ?? elements.length
LenArg(side) == LenOf(side.length, side.n)

\* The elements of the destination array outside offset .. offset+count-1 are
\* what they were before the call.
Intact(dst, offset, count) ==
  \A j \in DOMAIN dst : (j < offset \/ j >= offset + count) => dst[j] = Stale(j)

\* The elements a push call offers.
Offered(side) ==
  Slice(Elements(side.base, side.n, side.offset), side.offset, LenArg(side))

\* The elements a pop call has returned.
Returned(side) == Slice(side.dst, side.offset, side.ret)

\* One entry of the call log, made of a call that has returned: the call, the
\* length requested, what it returned, the indices it loaded, and its data
\* (push: the elements offered; pop: the elements returned).
Entry(side) ==
  [op |-> side.op, len |-> LenArg(side), ret |-> side.ret,
   rd0 |-> side.rd, wr0 |-> side.wr,
   data |-> IF side.op = "push" THEN Offered(side) ELSE Returned(side)]

\* The log when the caller goes on after a call, in a sequential run.  The
\* log holds the calls that moved data (returned more than 0) since a push
\* last found the buffer empty, that push first; it is given up when more
\* than MaxLog such calls have followed one another.  A call that returned 0,
\* and an introspection call, leave it as it is.
Logged(side) ==
  IF ~seqMode \/ side.op \notin DataOps \/ side.ret = 0 THEN log
  ELSE IF side.op = "push" /\ side.rd = side.wr THEN << Entry(side) >>
  ELSE IF log = << >> \/ Len(log) >= MaxLog THEN << >>
  ELSE Append(log, Entry(side))

\* A side may start a call: in a sequential run only while the other rests.
MayCall(me, other) == me.pc = "idle" /\ (seqMode => other.pc = "idle")

\* The arguments (n = elements.length, length) a caller passes, offset being
\* left at its default 0 as in every call of this repository: an array of any
\* length with no length, or the longest array with any length it covers
\* ("elements.length - offset must be greater or equal to length").
Arguments ==
  { a \in (0 .. MaxLen) \X ({undefined} \cup (0 .. MaxLen)) :
      a[2] = undefined \/ a[1] = MaxLen }

\* ---------------------------------------------------------------- producer

\* The producer calls push(elements, length, offset).
P_CallPush ==
  /\ MayCall(prod, cons)
  /\ \E a \in Arguments :
       /\ nextVal + LenOf(a[2], a[1]) <= MaxVal
       /\ prod' = Begin(prod, "loadRd", "push", a[1], a[2], 0, << >>)
  /\ UNCHANGED << shared, cons, nextVal, pushed, popped, seqMode, log, outside >>

\* AudioWriter.enqueue(buf): return this.ringbuf.push(buf).
P_CallEnqueue ==
  /\ MayCall(prod, cons)
  /\ \E n \in 0 .. MaxLen :
       /\ nextVal + n <= MaxVal
       /\ prod' = Begin(prod, "loadRd", "push", n, undefined, 0, << >>)
  /\ UNCHANGED << shared, cons, nextVal, pushed, popped, seqMode, log, outside >>

\* The producer calls availableWrite() (AudioWriter.availableWrite) or full().
P_CallQuery ==
  /\ MayCall(prod, cons)
  /\ \E op \in {"availableWrite", "full"} : prod' = Begin(prod, "loadRd", op, 0, undefined, 0, << >>)
  /\ UNCHANGED << shared, cons, nextVal, pushed, popped, seqMode, log, outside >>

\* capacity(): return this._capacity - 1.
P_Capacity ==
  /\ MayCall(prod, cons)
  /\ prod' = Return(Begin(prod, "idle", "capacity", 0, undefined, 0, << >>), capacity)
  /\ UNCHANGED << shared, cons, nextVal, pushed, popped, seqMode, log, outside >>

\* const rd = Atomics.load(this.read_ptr, 0)
P_LoadRd ==
  /\ prod.pc = "loadRd"
  /\ prod' = [prod EXCEPT !.pc = "loadWr", !.rd = read_ptr, !.steps = @ + 1]
  /\ UNCHANGED << shared, cons, nextVal, pushed, popped, seqMode, log, outside >>

\* An introspection operation: const wr = Atomics.load(this.write_ptr, 0) and
\* the return of the value computed from rd and wr.
P_QueryReturn ==
  /\ prod.pc = "loadWr" /\ prod.op \in QueryOps
  /\ prod' = Return([prod EXCEPT !.wr = write_ptr],
                    QueryResult(prod.op, prod.rd, write_ptr))
  /\ UNCHANGED << shared, cons, nextVal, pushed, popped, seqMode, log, outside >>

\* P_PushFull reporting the full buffer as an error value instead of 0.
P_PushFull_Error ==
  /\ prod.pc = "loadWr" /\ prod.op = "push"
  /\ IsFull(prod.rd, write_ptr)
  /\ prod' = Return([prod EXCEPT !.wr = write_ptr], undefined)
  /\ UNCHANGED << shared, cons, nextVal, pushed, popped, seqMode, log, outside >>

\* push: const wr = Atomics.load(this.write_ptr, 0); a full buffer returns 0.
P_PushFull ==
  /\ prod.pc = "loadWr" /\ prod.op = "push"
  /\ IsFull(prod.rd, write_ptr)
  /\ prod' = Return([prod EXCEPT !.wr = write_ptr], 0)
  /\ UNCHANGED << shared, cons, nextVal, pushed, popped, seqMode, log, outside >>

\* P_PushPlan with the new write index published before the payload is copied.
P_PushPlan_PublishFirst ==
  /\ prod.pc = "loadWr" /\ prod.op = "push"
  /\ ~IsFull(prod.rd, write_ptr)
  /\ LET toWrite == ToWrite(prod.rd, write_ptr, LenArg(prod))
     IN  /\ prod' = [prod EXCEPT !.wr = write_ptr, !.len = LenArg(prod),
                                 !.count = toWrite, !.k = 0,
                                 !.pc = IF toWrite = 0 THEN "store" ELSE "copy",
                                 !.steps = @ + 1]
         /\ write_ptr' = Advance(write_ptr, toWrite)
  /\ UNCHANGED << storageCapacity, storage, read_ptr, cons, nextVal, pushed,
                  popped, seqMode, log, outside >>

\* push: const wr = Atomics.load(this.write_ptr, 0); the buffer is not full:
\* len, toWrite, firstPart and secondPart are computed.
P_PushPlan ==
  /\ prod.pc = "loadWr" /\ prod.op = "push"
  /\ ~IsFull(prod.rd, write_ptr)
  /\ LET toWrite == ToWrite(prod.rd, write_ptr, LenArg(prod))
     IN  prod' = [prod EXCEPT !.wr = write_ptr, !.len = LenArg(prod),
                              !.count = toWrite, !.k = 0,
                              !.pc = IF toWrite = 0 THEN "store" ELSE "copy",
                              !.steps = @ + 1]
  /\ UNCHANGED << shared, cons, nextVal, pushed, popped, seqMode, log, outside >>

\* push: one assignment output[offsetOutput + i] = input[offsetInput + i] of
\* copy(elements, offset, storage, wr, firstPart) or of
\* copy(elements, offset + firstPart, storage, 0, secondPart).
P_Copy ==
  /\ prod.pc = "copy"
  /\ storage' = Put(storage, SlotOf(prod.wr, prod.count, prod.k),
                    Get(Elements(prod.base, prod.n, prod.offset),
                        prod.offset + prod.k))
  /\ prod' = [prod EXCEPT !.k = @ + 1, !.steps = @ + 1,
                          !.pc = IF prod.k + 1 = prod.count THEN "store" ELSE "copy"]
  /\ UNCHANGED << storageCapacity, write_ptr, read_ptr, cons, nextVal, pushed,
                  popped, seqMode, log, outside >>

\* P_Store returning only once the consumer has taken the elements: it loads
\* the read index again and again until the queue is empty.
P_Store_WaitsForConsumer ==
  /\ prod.pc = "store"
  /\ write_ptr' = Advance(prod.wr, prod.count)
  /\ IF read_ptr = write_ptr'
       THEN /\ pushed' = pushed \o Slice(Elements(prod.base, prod.n, prod.offset),
                                         prod.offset, prod.count)
            /\ nextVal' = nextVal + prod.count
            /\ prod' = Return(prod, prod.count)
       ELSE /\ prod' = [prod EXCEPT !.steps = @ + 1]
            /\ UNCHANGED << pushed, nextVal >>
  /\ UNCHANGED << storageCapacity, storage, read_ptr, cons, popped, seqMode, log, outside >>

\* push: Atomics.store(this.write_ptr, 0, (wr + toWrite) % storageCapacity);
\* return toWrite.
P_Store ==
  /\ prod.pc = "store"
  /\ write_ptr' = Advance(prod.wr, prod.count)
  /\ pushed' = pushed \o Slice(Elements(prod.base, prod.n, prod.offset),
                               prod.offset, prod.count)
  /\ nextVal' = nextVal + prod.count
  /\ prod' = Return(prod, prod.count)
  /\ UNCHANGED << storageCapacity, storage, read_ptr, cons, popped, seqMode, log, outside >>

\* The producer's caller goes on with the value the call returned.
P_Resume ==
  /\ prod.pc = "return"
  /\ prod' = Resume(prod, "availableWrite")
  /\ log' = Logged(prod)
  /\ UNCHANGED << shared, cons, nextVal, pushed, popped, seqMode, outside >>

\* A step of the producer inside a RingBuffer call.
ProducerStep ==
  P_LoadRd \/ P_QueryReturn \/ P_PushFull \/ P_PushPlan \/ P_Copy \/ P_Store

\* Any step of the producer.
Producer ==
  \/ P_CallPush \/ P_CallEnqueue \/ P_CallQuery \/ P_Capacity \/ P_Resume
  \/ ProducerStep

\* ---------------------------------------------------------------- consumer

\* The consumer calls pop(elements, length, offset).
C_CallPop ==
  /\ MayCall(cons, prod)
  /\ \E a \in Arguments :
       cons' = Begin(cons, "loadRd", "pop", a[1], a[2], 0, Destination(a[1]))
  /\ UNCHANGED << shared, prod, nextVal, pushed, popped, seqMode, log, outside >>

\* AudioReader.dequeue(buf) is called: this.ringbuf.empty() comes first.
C_CallDequeue ==
  /\ MayCall(cons, prod)
  /\ \E n \in 0 .. MaxLen :
       cons' = Begin(cons, "emptyLoadRd", "dequeue", n, undefined, 0, Destination(n))
  /\ UNCHANGED << shared, prod, nextVal, pushed, popped, seqMode, log, outside >>

\* The consumer calls availableRead() (AudioReader.availableRead) or empty().
C_CallQuery ==
  /\ MayCall(cons, prod)
  /\ \E op \in {"availableRead", "empty"} : cons' = Begin(cons, "loadRd", op, 0, undefined, 0, << >>)
  /\ UNCHANGED << shared, prod, nextVal, pushed, popped, seqMode, log, outside >>

\* capacity(): return this._capacity - 1.
C_Capacity ==
  /\ MayCall(cons, prod)
  /\ cons' = Return(Begin(cons, "idle", "capacity", 0, undefined, 0, << >>), capacity)
  /\ UNCHANGED << shared, prod, nextVal, pushed, popped, seqMode, log, outside >>

\* dequeue: empty(): const rd = Atomics.load(this.read_ptr, 0)
C_EmptyLoadRd ==
  /\ cons.pc = "emptyLoadRd"
  /\ cons' = [cons EXCEPT !.pc = "emptyLoadWr", !.rd = read_ptr, !.steps = @ + 1]
  /\ UNCHANGED << shared, prod, nextVal, pushed, popped, seqMode, log, outside >>

\* dequeue: empty(): const wr = Atomics.load(this.write_ptr, 0); wr === rd:
\* dequeue returns 0.
C_DequeueEmpty ==
  /\ cons.pc = "emptyLoadWr"
  /\ IsEmpty(cons.rd, write_ptr)
  /\ cons' = Return([cons EXCEPT !.wr = write_ptr], 0)
  /\ UNCHANGED << shared, prod, nextVal, pushed, popped, seqMode, log, outside >>

\* dequeue: empty() returned false: return this.ringbuf.pop(buf).
C_DequeuePop ==
  /\ cons.pc = "emptyLoadWr"
  /\ ~IsEmpty(cons.rd, write_ptr)
  /\ cons' = [cons EXCEPT !.pc = "loadRd", !.op = "pop", !.rd = 0, !.steps = 0]
  /\ UNCHANGED << shared, prod, nextVal, pushed, popped, seqMode, log, outside >>

\* const rd = Atomics.load(this.read_ptr, 0)
C_LoadRd ==
  /\ cons.pc = "loadRd"
  /\ cons' = [cons EXCEPT !.pc = "loadWr", !.rd = read_ptr, !.steps = @ + 1]
  /\ UNCHANGED << shared, prod, nextVal, pushed, popped, seqMode, log, outside >>

\* An introspection operation: const wr = Atomics.load(this.write_ptr, 0) and
\* the return of the value computed from rd and wr.
C_QueryReturn ==
  /\ cons.pc = "loadWr" /\ cons.op \in QueryOps
  /\ cons' = Return([cons EXCEPT !.wr = write_ptr],
                    QueryResult(cons.op, cons.rd, write_ptr))
  /\ UNCHANGED << shared, prod, nextVal, pushed, popped, seqMode, log, outside >>

\* C_PopEmpty clearing the destination array before it returns 0.
C_PopEmpty_ClearsDestination ==
  /\ cons.pc = "loadWr" /\ cons.op = "pop"
  /\ IsEmpty(cons.rd, write_ptr)
  /\ cons' = Return([cons EXCEPT !.wr = write_ptr,
                                 !.dst = [j \in DOMAIN cons.dst |-> 0]], 0)
  /\ UNCHANGED << shared, prod, nextVal, pushed, popped, seqMode, log, outside >>

\* pop: const wr = Atomics.load(this.write_ptr, 0); an empty buffer returns 0.
C_PopEmpty ==
  /\ cons.pc = "loadWr" /\ cons.op = "pop"
  /\ IsEmpty(cons.rd, write_ptr)
  /\ cons' = Return([cons EXCEPT !.wr = write_ptr], 0)
  /\ UNCHANGED << shared, prod, nextVal, pushed, popped, seqMode, log, outside >>

\* pop: const wr = Atomics.load(this.write_ptr, 0); the buffer is not empty:
\* len, toRead, firstPart and secondPart are computed.
C_PopPlan ==
  /\ cons.pc = "loadWr" /\ cons.op = "pop"
  /\ ~IsEmpty(cons.rd, write_ptr)
  /\ LET toRead == ToRead(cons.rd, write_ptr, LenArg(cons))
     IN  cons' = [cons EXCEPT !.wr = write_ptr, !.len = LenArg(cons),
                              !.count = toRead, !.k = 0,
                              !.pc = IF toRead = 0 THEN "store" ELSE "copy",
                              !.steps = @ + 1]
  /\ UNCHANGED << shared, prod, nextVal, pushed, popped, seqMode, log, outside >>

\* C_Copy with the second copy() call given offset instead of
\* offset + firstPart: the wrapped span lands on the start of the destination.
C_Copy_HeadAtOffset ==
  /\ cons.pc = "copy"
  /\ LET first == FirstPart(cons.rd, cons.count)
         to    == IF cons.k < first THEN cons.offset + cons.k
                  ELSE cons.offset + (cons.k - first)
     IN  cons' = [cons EXCEPT !.dst = Put(cons.dst, to,
                                          Get(storage, SlotOf(cons.rd, cons.count, cons.k))),
                              !.k = @ + 1, !.steps = @ + 1,
                              !.pc = IF cons.k + 1 = cons.count THEN "store" ELSE "copy"]
  /\ UNCHANGED << shared, prod, nextVal, pushed, popped, seqMode, log, outside >>

\* pop: one assignment output[offsetOutput + i] = input[offsetInput + i] of
\* copy(storage, rd, elements, offset, firstPart) or of
\* copy(storage, 0, elements, offset + firstPart, secondPart).
C_Copy ==
  /\ cons.pc = "copy"
  /\ cons' = [cons EXCEPT !.dst = Put(cons.dst, cons.offset + cons.k,
                                      Get(storage, SlotOf(cons.rd, cons.count, cons.k))),
                          !.k = @ + 1, !.steps = @ + 1,
                          !.pc = IF cons.k + 1 = cons.count THEN "store" ELSE "copy"]
  /\ UNCHANGED << shared, prod, nextVal, pushed, popped, seqMode, log, outside >>

\* C_Store publishing through the write index instead of the read index.
C_Store_WrongIndex ==
  /\ cons.pc = "store"
  /\ write_ptr' = Advance(cons.rd, cons.count)
  /\ popped' = popped \o Slice(cons.dst, cons.offset, cons.count)
  /\ cons' = Return(cons, cons.count)
  /\ UNCHANGED << storageCapacity, storage, read_ptr, prod, nextVal, pushed,
                  seqMode, log, outside >>

\* pop: Atomics.store(this.read_ptr, 0, (rd + toRead) % storageCapacity);
\* return toRead.
C_Store ==
  /\ cons.pc = "store"
  /\ read_ptr' = Advance(cons.rd, cons.count)
  /\ popped' = popped \o Slice(cons.dst, cons.offset, cons.count)
  /\ cons' = Return(cons, cons.count)
  /\ UNCHANGED << storageCapacity, storage, write_ptr, prod, nextVal, pushed,
                  seqMode, log, outside >>

\* The consumer's caller goes on with the value the call returned.
C_Resume ==
  /\ cons.pc = "return"
  /\ cons' = Resume(cons, "availableRead")
  /\ log' = Logged(cons)
  /\ UNCHANGED << shared, prod, nextVal, pushed, popped, seqMode, outside >>

\* A step of the consumer inside a RingBuffer call (dequeue: empty(), pop()).
ConsumerStep ==
  \/ C_EmptyLoadRd \/ C_DequeueEmpty \/ C_DequeuePop \/ C_LoadRd
  \/ C_QueryReturn \/ C_PopEmpty \/ C_PopPlan \/ C_Copy \/ C_Store

\* Any step of the consumer.
Consumer ==
  \/ C_CallPop \/ C_CallDequeue \/ C_CallQuery \/ C_Capacity \/ C_Resume
  \/ ConsumerStep

\* -------------------------------------------------------------- construction

\* const RING_BUFFER_HEADER_SIZE = 8
RING_BUFFER_HEADER_SIZE == 8

\* type.BYTES_PER_ELEMENT of the typed array constructors of
\* TypedArrayConstructor (Int8 and Uint8, Int16 and Uint16, Int32, Uint32 and
\* Float32, Float64).
BYTES_PER_ELEMENT == {1, 2, 4, 8}

\* No construction under way.  pc: "none", "requested" (getStorageForCapacity
\* is about to be called), "allocated" (it has returned the SharedArrayBuffer,
\* which is about to be passed to the constructor), "constructed" (the
\* constructor has returned the object), "failed" (one of the two has thrown).
\* requested: the capacity asked for; size: type.BYTES_PER_ELEMENT;
\* byteLength: sab.byteLength; _capacity: this._capacity; slots:
\* this.storage.length.
NoBuild ==
  [pc |-> "none", requested |-> 0, size |-> 4, byteLength |-> undefined,
   _capacity |-> undefined, slots |-> undefined]

\* new type(sab, byteOffset, length) succeeds: the length is not negative,
\* the offset is a multiple of the element size, and the view ends inside the
\* buffer.  Otherwise it throws a RangeError.
ViewFits(byteLength, byteOffset, length, size) ==
  /\ length >= 0
  /\ byteOffset % size = 0
  /\ byteOffset + length * size <= byteLength

\* static getStorageForCapacity(capacity, type): bytes =
\* RING_BUFFER_HEADER_SIZE + (capacity + 1) * type.BYTES_PER_ELEMENT; return
\* new SharedArrayBuffer(bytes), which throws a RangeError for a negative
\* length.
getStorageForCapacity ==
  /\ build.pc = "requested"
  /\ LET bytes == RING_BUFFER_HEADER_SIZE + (build.requested + 1) * build.size
     IN  build' = IF bytes < 0
                    THEN [build EXCEPT !.pc = "failed"]
                    ELSE [build EXCEPT !.pc = "allocated", !.byteLength = bytes]
  /\ UNCHANGED << storageCapacity, storage, write_ptr, read_ptr, prod, cons,
                  nextVal, pushed, popped, seqMode, log, raw, denoised, worklet,
                  worker, inbox, events, main, hist, inline >>

\* constructor(sab, type): this._capacity = (sab.byteLength -
\* RING_BUFFER_HEADER_SIZE) / type.BYTES_PER_ELEMENT; this.write_ptr = new
\* Uint32Array(sab, 0, 1); this.read_ptr = new Uint32Array(sab, 4, 1);
\* this.storage = new type(sab, RING_BUFFER_HEADER_SIZE, this._capacity).
constructor ==
  /\ build.pc = "allocated"
  /\ LET cap == (build.byteLength - RING_BUFFER_HEADER_SIZE) \div build.size
     IN  build' =
           IF /\ ViewFits(build.byteLength, 0, 1, 4)
              /\ ViewFits(build.byteLength, 4, 1, 4)
              /\ ViewFits(build.byteLength, RING_BUFFER_HEADER_SIZE, cap, build.size)
             THEN [build EXCEPT !.pc = "constructed", !._capacity = cap,
                                !.slots = cap]
             ELSE [build EXCEPT !.pc = "failed"]
  /\ UNCHANGED << storageCapacity, storage, write_ptr, read_ptr, prod, cons,
                  nextVal, pushed, popped, seqMode, log, raw, denoised, worklet,
                  worker, inbox, events, main, hist, inline >>

\* ------------------------------------------------------------ real numbers
\*
\* A suppression level, an energy, a rate: a JavaScript number, kept here as
\* a fraction n/d in lowest terms (d > 0), so that Math.floor, the comparisons
\* with the thresholds and the averages are computed and not assumed.

\* The greatest common divisor of a and b (Euclid).
GCD[a \in Nat, b \in Nat] == IF b = 0 THEN a ELSE GCD[b, a % b]

Abs(k) == IF k < 0 THEN 0 - k ELSE k

\* The member of a set of one.
Only(S) == CHOOSE x \in S : TRUE

\* The number n/d.
Rat(n, d) ==
  LET g == GCD[Abs(n), d] IN [n |-> n \div g, d |-> d \div g]

\* The integer k as a number.
Num(k) == [n |-> k, d |-> 1]

\* No number: a field that holds no level yet.
NoLevel == [n |-> 0, d |-> 0]

\* The number a in lowest terms: the form in which numbers are kept and
\* compared for equality.
Lowest(x) == Only({ Rat(a.n, a.d) : a \in {x} })

\* Sum, difference, product, and x / y for y > 0, in lowest terms.  Here
\* and below a and b are the values of the operands x and y: an operand is
\* evaluated once, as in the JavaScript expression.
Plus(x, y) ==
  Only({ Rat(a.n * b.d + b.n * a.d, a.d * b.d) :
           a \in {x}, b \in {y} })

Minus(x, y) ==
  Only({ Rat(a.n * b.d - b.n * a.d, a.d * b.d) :
           a \in {x}, b \in {y} })

Times(x, y) ==
  Only({ Rat(a.n * b.n, a.d * b.d) :
           a \in {x}, b \in {y} })

Over(x, y) ==
  Only({ Rat(a.n * b.d, a.d * b.n) :
           a \in {x}, b \in {y} })

Less(x, y) == \E a \in {x}, b \in {y} : a.n * b.d < b.n * a.d

AtMost(x, y) == \E a \in {x}, b \in {y} : a.n * b.d <= b.n * a.d

\* Math.min, Math.max
MathMin(x, y) == Only({ IF Less(b, a) THEN b ELSE a : a \in {x}, b \in {y} })

MathMax(x, y) == Only({ IF Less(a, b) THEN b ELSE a : a \in {x}, b \in {y} })

\* Math.floor
MathFloor(x) == Only({ Num(a.n \div a.d) : a \in {x} })

\* Math.abs
MathAbs(a) == [n |-> Abs(a.n), d |-> a.d]

IsInteger(a) == a.d = 1

\* No setSuppressionLevel(level) request has reached the model.  asked: the
\* argument of the call; applied: the argument df_set_atten_lim got for it.
NoRequest == [asked |-> NoLevel, applied |-> NoLevel]

\* array.reduce((a, b) => a + b, 0)
RECURSIVE Sum(_)
Sum(history) ==
  IF history = << >> THEN Num(0) ELSE Plus(Head(history), Sum(Tail(history)))

\* ------------------------------------------------------ the state at rest

\* null
null == 0 - 2

\* A RingBuffer over a fresh (zero-filled) SharedArrayBuffer.
NewRing ==
  [storage |-> [j \in 0 .. storageCapacity - 1 |-> 0], write_ptr |-> 0,
   read_ptr |-> 0]

\* A Float32Array(n) as the constructor leaves it.
Zeros(n) == [j \in 0 .. n - 1 |-> 0]

\* No AudioWorkletNode has been created.  pc: "none" (no node), "idle" (no
\* process() call yet), the step process() is about to take, or "done"
\* (process() has returned ret).  tick: the number of process() calls so far;
\* input: inputList[0][0]; output: outputList[0], one array per channel;
\* rd, wr, count: the indices loaded and toWrite / toRead of the RingBuffer
\* call under way; available: what availableRead() returned; accepted: what
\* enqueue() returned; free: the free slots of the raw channel by the indices
\* enqueue() loaded; before: the read index of the denoised channel when the
\* call began; had: the number of samples drained before the call; ready,
\* bypass: whether the ready promise was resolved, and the worker's bypass
\* flag, when the call began.
NoWorklet ==
  [pc |-> "none", channelCount |-> 0, tick |-> 0, input |-> << >>,
   output |-> << >>, planarBuffer |-> Zeros(Quantum), rd |-> 0, wr |-> 0,
   count |-> 0, available |-> undefined, samples_read |-> undefined,
   accepted |-> undefined, free |-> undefined, before |-> 0, had |-> 0,
   ready |-> FALSE, bypass |-> FALSE, ret |-> TRUE]

\* The worker before its script has run.  pc: "none" (not started), "idle"
\* (between two tasks of its event loop), or the step readFromQueue() is about
\* to take.  attached: _audio_reader and _audio_writer are set; df_model,
\* frame_length, rawStorage, interval, bypass: the module variables; timers:
\* the intervals set and not cleared; rd, wr, count: as for the worklet;
\* samples_read, output_frame: the locals of readFromQueue(); init: how the
\* INIT handler ended ("none", "ok", or the call that threw); posted: the
\* messages the worker has posted so far; stopFramed: the number of samples
\* dequeued from the raw channel when STOP was last handled, if no INIT has
\* started a loop since; failFramed: the number of samples dequeued from the
\* raw channel when df_process_frame first threw; atten_lim: the attenuation
\* limit the model holds (the last argument of df_create or df_set_atten_lim);
\* request: the last setSuppressionLevel() request that reached the model.
NoWorker ==
  [pc |-> "none", attached |-> FALSE, df_model |-> null,
   frame_length |-> undefined, rawStorage |-> << >>, interval |-> null,
   timers |-> 0, bypass |-> FALSE, rd |-> 0, wr |-> 0, count |-> 0,
   available |-> undefined, samples_read |-> undefined, free |-> undefined,
   output_frame |-> << >>, init |-> "none", posted |-> << >>,
   stopFramed |-> undefined, failFramed |-> undefined,
   atten_lim |-> NoLevel, request |-> NoRequest]

\* The number of worker-based processors (each with its WorkerManager and
\* its two SharedArrayBuffers) of one page.
MaxManagers == 2

\* The number of workers created in one run.
MaxWorkers == 3

Managers == 1 .. MaxManagers

\* The static fields of WorkerManager and the processors of a page, before
\* anything is called.  worker: WorkerManager.worker, the number of a worker
\* or null; assets: WorkerManager.assets is set; workers: the workers created
\* so far, each with its creator (the manager whose handleWorkerMessage is its
\* onmessage), its state ("loading": the script has not run; "asked": it has
\* posted FETCH_WASM; "waiting": FETCH_WASM has been handled; "ready": INIT
\* succeeded and SETUP_AWP is posted; "error": INIT failed and ERROR is
\* posted), whether it is terminated, the INIT commands posted to it and not
\* yet handled (each known by the manager whose rawSab and denoisedSab it
\* carries) and the manager whose channels it has attached; isInitialized,
\* pc: of each processor, its flag and the await its initialize() is at;
\* pending: the sendAssetsToWorker() calls awaiting getSharedAssets(), each
\* with its manager and the worker whose FETCH_WASM it answers; sent: the
\* postMessage calls of sendAssetsToWorker() so far, each with the worker it
\* posted to (null: WorkerManager.worker was null), the requesting worker and
\* the manager.
NoShared ==
  [worker |-> null, assets |-> FALSE, workers |-> << >>,
   isInitialized |-> [m \in Managers |-> FALSE],
   pc |-> [m \in Managers |-> "idle"],
   pending |-> {}, sent |-> << >>]

\* No WorkerManager has created a worker.  worker: WorkerManager.worker is
\* set; ready: workerReadyPromise is resolved; resolve: workerReadyResolve is
\* set; bypassEnabled: the processor's field; posts: the
\* commands posted to the worker so far; stopped: STOP has been posted;
\* awaiting: a createAudioWorkletNode() call is suspended at its await of
\* WorkerManager.waitForWorkerReady(); inits: the INIT commands posted
\* without a FETCH_WASM to answer.
NoMain ==
  [worker |-> FALSE, ready |-> FALSE, resolve |-> FALSE, bypassEnabled |-> FALSE,
   posts |-> 0, stopped |-> FALSE, awaiting |-> FALSE, inits |-> 0,
   shared |-> NoShared]

\* No sample has gone anywhere.  enqueued: the samples the raw channel
\* accepted from the worklet; framed: the samples the worker dequeued from it;
\* produced: the samples the denoised channel accepted from the worker;
\* drained: the samples the worklet dequeued from it.
NoHist == [enqueued |-> << >>, framed |-> << >>, produced |-> << >>, drained |-> << >>]

\* The last frame calculateDynamicSuppressionLevel() analysed: its features,
\* the target chosen for it, the level applied before it, the level computed
\* for it, and whether df_set_atten_lim was called for it.
NoAnalysis ==
  [rms |-> NoLevel, avgZCR |-> NoLevel, avgEnergy |-> NoLevel,
   normalizedCentroid |-> NoLevel, manual |-> NoLevel, targetLevel |-> NoLevel,
   current |-> NoLevel, newLevel |-> NoLevel, set |-> FALSE]

\* DeepFilterNoiseFilterProcessor as its constructor leaves it, with the
\* default options.  enabled, originalTrack, audioContext, workletNode: its
\* fields (the last three: set or not); pc: "idle", or the call of
\* ensureGraph() that init or restart is awaiting; completed: the last init
\* or restart has returned and no destroy has followed; wanted: the argument
\* of the last setSuppressionLevel() call with a number.
NoFilter ==
  [enabled |-> TRUE, originalTrack |-> FALSE, audioContext |-> FALSE,
   workletNode |-> FALSE, pc |-> "idle", completed |-> FALSE,
   wanted |-> [n |-> 0, d |-> 0]]

\* The two internal rings of the worklet that holds the model, before its
\* constructor has run.  frameLength: dfModel.frameLength; tempFrame: the
\* frame buffer (<< >>: null, not allocated).  ticks: the number of process()
\* calls; passed: the last call was a pass-through; output: what the last
\* call wrote to outputList[0][0] (nothing: << >>); frames: the samples the
\* last call extracted into model frames, in order; fed, extracted, produced,
\* drained: the numbers of samples written to the input ring, extracted from
\* it, written to the output ring and copied out of it, so far; lastOut: the
\* input sample the last sample output before the last call was made of;
\* mark, markedAt: the numbers of samples fed and of process() calls when
\* bypass was last switched off after it had been on.
NoRings ==
  [frameLength |-> 0, bufferSize |-> 0,
   inputBuffer |-> << >>, outputBuffer |-> << >>,
   inputWritePos |-> 0, inputReadPos |-> 0,
   outputWritePos |-> 0, outputReadPos |-> 0,
   tempFrame |-> << >>,
   ticks |-> 0, passed |-> FALSE, output |-> << >>, frames |-> << >>,
   fed |-> 0, extracted |-> 0, produced |-> 0, drained |-> 0,
   lastOut |-> 0, mark |-> 0, markedAt |-> 0]

\* DeepFilterNet3Processor and the DeepFilterAudioProcessor it creates.
\* assets: initialize() has loaded the assets; workletNode: the processor
\* holds a node; port: the messages posted to the node's port, not yet
\* handled; atten_lim: the attenuation limit the model holds (the last
\* argument of df_create or df_set_atten_lim); asked: the argument of the
\* setSuppressionLevel() call manualSuppressionLevel comes from; request: the
\* last setSuppressionLevel() request that reached the model; analysis: the
\* frame analysed by the worklet's last step, if that step was a frame;
\* noiseReductionLevel, dynamicSuppression: the processor's config.  The
\* bypass flag is set by SET_BYPASS, which touches nothing else.  deferred:
\* the last SET_SUPPRESSION_LEVEL message was handled with dynamic suppression
\* enabled; adapted: a frame has made the worklet call df_set_atten_lim since
\* the last SET_SUPPRESSION_LEVEL message.
NoInline ==
  [noiseReductionLevel |-> Num(50), dynamicSuppression |-> FALSE,
   asked |-> NoLevel,
   assets |-> FALSE, workletNode |-> FALSE, port |-> << >>,
   isInitialized |-> FALSE,
   dfModel |-> null, atten_lim |-> NoLevel, bypass |-> FALSE,
   dynamicSuppressionEnabled |-> FALSE, manualSuppressionLevel |-> Num(50),
   currentSuppressionLevel |-> Num(50), energyHistory |-> << >>,
   zcRateHistory |-> << >>, request |-> NoRequest, analysis |-> NoAnalysis,
   deferred |-> FALSE, adapted |-> FALSE,
   bypassEnabled |-> FALSE, rings |-> NoRings, filter |-> NoFilter]

\* Nothing but the one RingBuffer exists.
PipelineAtRest ==
  /\ raw = NewRing
  /\ denoised = NewRing
  /\ worklet = NoWorklet
  /\ worker = NoWorker
  /\ inbox = << >>
  /\ events = << >>
  /\ main = NoMain
  /\ hist = NoHist
  /\ inline = NoInline

\* ----------------------------------------------------------- specifications

\* new RingBuffer(sab, type) over a fresh (zero-filled) SharedArrayBuffer
\* obtained from getStorageForCapacity(c, type) with c in 1..MaxCap.
InitBuffer ==
  /\ storageCapacity \in 2 .. MaxCap + 1
  /\ storage = [j \in 0 .. storageCapacity - 1 |-> 0]
  /\ write_ptr = 0
  /\ read_ptr = 0
  /\ prod = NoCall
  /\ cons = NoCall
  /\ nextVal = 0
  /\ pushed = << >>
  /\ popped = << >>
  /\ log = << >>

Init == InitBuffer /\ seqMode = FALSE /\ build = NoBuild /\ PipelineAtRest

InitSeq == InitBuffer /\ seqMode = TRUE /\ build = NoBuild /\ PipelineAtRest

Next == Producer \/ Consumer

\* Producer and consumer run concurrently, step by step.
Spec == Init /\ [][Next]_vars

\* The calls of the two sides never overlap.
SeqSpec == InitSeq /\ [][Next]_vars

\* new RingBuffer(sab, type) over the storage getStorageForCapacity(c, type)
\* returns for c in 0..MaxCap: for c = 0 it returns 8 header bytes and one
\* element, and the constructor makes a buffer of one slot of it.
InitAnyCapacity ==
  /\ storageCapacity \in 1 .. MaxCap + 1
  /\ storage = [j \in 0 .. storageCapacity - 1 |-> 0]
  /\ write_ptr = 0
  /\ read_ptr = 0
  /\ prod = NoCall
  /\ cons = NoCall
  /\ nextVal = 0
  /\ pushed = << >>
  /\ popped = << >>
  /\ log = << >>
  /\ seqMode = FALSE /\ build = NoBuild /\ PipelineAtRest

AnyCapacitySpec == InitAnyCapacity /\ [][Next]_vars

\* getStorageForCapacity(capacity, type) is about to be called with a capacity
\* from -MaxNeg to MaxCap and one of the typed array constructors.
InitBuild ==
  /\ InitBuffer /\ storageCapacity = 2 /\ seqMode = FALSE
  /\ PipelineAtRest
  /\ \E c \in (0 - MaxNeg) .. MaxCap, size \in BYTES_PER_ELEMENT :
       build = [NoBuild EXCEPT !.pc = "requested", !.requested = c, !.size = size]

NextBuild == getStorageForCapacity \/ constructor

\* new RingBuffer(RingBuffer.getStorageForCapacity(capacity, type), type)
BuildSpec == InitBuild /\ [][NextBuild]_vars

\* ------------------------------------------------- the streaming pipeline
\*
\* The worklet (real-time thread) and the worker (background thread) share
\* two RingBuffers, `raw` and `denoised`, of storageCapacity slots each.  The
\* two Atomics.load of a RingBuffer call are one step, taken when the index
\* the other thread writes is loaded (the caller's own index cannot change in
\* between); the Atomics.store is one step.  The copy() calls of a push
\* write slots the other thread does not read until the store that follows
\* them, and are taken with that store; the copy() calls of a pop read slots
\* the other thread does not write until the store that follows them, and
\* are taken with the loads before them.  What a thread does on its own
\* between two such steps belongs to the step before.  A message handler of
\* the worker runs between two readFromQueue() calls, never inside one.

\* What the pipeline leaves alone.
elsewhere ==
  << storageCapacity, storage, write_ptr, read_ptr, prod, cons, nextVal,
     pushed, popped, seqMode, log, build, inline >>

\* inputList[0][0] of the tick-th process() call: the samples are numbered
\* 1, 2, 3, ... in the order they arrive.
Input(tick) == [j \in 0 .. Quantum - 1 |-> (tick - 1) * Quantum + j + 1]

\* outputList[0] as the host hands it to process(): channelCount arrays whose
\* content is not of this call.
Output(channelCount) == [c \in 1 .. channelCount |-> Destination(Quantum)]

\* wasm_bindgen.df_process_frame(df_model, frame): a frame of the same
\* length; the sample made of x is told apart from x.
df_process_frame(frame) == [j \in DOMAIN frame |-> frame[j] + 100]

\* a.subarray(0, n)
Subarray(a, n) == [j \in 0 .. n - 1 |-> a[j]]

\* push: the storage after copy(elements, 0, storage, wr, firstPart) and
\* copy(elements, firstPart, storage, 0, secondPart), count elements in all.
CopyIn(st, wr, count, elements) ==
  [s \in DOMAIN st |->
     IF \E k \in 0 .. count - 1 : SlotOf(wr, count, k) = s
       THEN Get(elements, CHOOSE k \in 0 .. count - 1 : SlotOf(wr, count, k) = s)
       ELSE st[s]]

\* pop: the elements array after copy(storage, rd, elements, 0, firstPart)
\* and copy(storage, 0, elements, firstPart, secondPart), count elements in all.
CopyOut(st, rd, count, dst) ==
  [j \in DOMAIN dst |-> IF j < count THEN Get(st, SlotOf(rd, count, j)) ELSE dst[j]]

\* The messages of the control protocol.
Message(command, bypass) == [command |-> command, bypass |-> bypass]

\* ---- the worklet: DeepFilterAudioProcessor.process()

\* process() is called: this._audio_writer.enqueue(inputList[0][0]), that is
\* push(buf): the two indices of the raw channel are loaded; a full channel
\* returns 0, otherwise toWrite is computed.
process_Enqueue ==
  /\ worklet.pc \in {"idle", "done"} /\ worklet.ret /\ worklet.tick < MaxTicks
  /\ LET rd   == raw.read_ptr
         wr   == raw.write_ptr
         full == IsFull(rd, wr)
     IN  worklet' =
           [worklet EXCEPT
              !.tick = @ + 1, !.input = Input(worklet.tick + 1),
              !.output = Output(worklet.channelCount),
              !.rd = rd, !.wr = wr, !.free = availableWriteInternal(rd, wr),
              !.count = IF full THEN 0 ELSE ToWrite(rd, wr, Quantum),
              !.accepted = IF full THEN 0 ELSE undefined,
              !.available = undefined, !.samples_read = undefined,
              !.before = denoised.read_ptr, !.had = Len(hist.drained),
              !.ready = main.ready, !.bypass = worker.bypass,
              !.pc = IF full THEN "availableRead" ELSE "enqueueStore"]
  /\ UNCHANGED << elsewhere, raw, denoised, worker, inbox, events, main, hist >>

\* enqueue: the two copy() calls of push, then Atomics.store(this.write_ptr,
\* 0, (wr + toWrite) % storageCapacity); return toWrite.
process_EnqueueStore ==
  /\ worklet.pc = "enqueueStore"
  /\ raw' = [raw EXCEPT
               !.storage = CopyIn(@, worklet.wr, worklet.count, worklet.input),
               !.write_ptr = Advance(worklet.wr, worklet.count)]
  /\ hist' = [hist EXCEPT !.enqueued = @ \o Slice(worklet.input, 0, worklet.count)]
  /\ worklet' = [worklet EXCEPT !.accepted = worklet.count, !.pc = "availableRead"]
  /\ UNCHANGED << elsewhere, denoised, worker, inbox, events, main >>

\* Underrun with any sample at all taken for a quantum.
Underrun_AnySample(available) == ~(available >= 1)

\* The test of process(): not (this._audio_reader.availableRead() >= 128).
Underrun(available) == ~(available >= Quantum)

\* if (this._audio_reader.availableRead() >= 128): the two indices of the
\* denoised channel are loaded; with less than a quantum process() returns
\* true.
process_AvailableRead ==
  /\ worklet.pc = "availableRead"
  /\ LET available == availableReadInternal(denoised.read_ptr, denoised.write_ptr)
     IN  worklet' = [worklet EXCEPT
                       !.available = available,
                       !.ret = TRUE,
                       !.pc = IF Underrun(available) THEN "done" ELSE "dequeueEmpty"]
  /\ UNCHANGED << elsewhere, raw, denoised, worker, inbox, events, main, hist >>

\* this._audio_reader.dequeue(this.planarBuffer): if (this.ringbuf.empty())
\* return 0; then samples_read < 128 and process() returns false.
process_DequeueEmpty ==
  /\ worklet.pc = "dequeueEmpty"
  /\ worklet' =
       IF IsEmpty(denoised.read_ptr, denoised.write_ptr)
         THEN [worklet EXCEPT !.samples_read = 0, !.ret = FALSE, !.pc = "done"]
         ELSE [worklet EXCEPT !.pc = "dequeuePop"]
  /\ UNCHANGED << elsewhere, raw, denoised, worker, inbox, events, main, hist >>

\* dequeue: pop(buf): the two indices are loaded; an empty channel returns 0
\* (and process() false), otherwise toRead is computed and the two copy()
\* calls of pop fill planarBuffer.
process_DequeuePop ==
  /\ worklet.pc = "dequeuePop"
  /\ LET rd == denoised.read_ptr
         wr == denoised.write_ptr
     IN  worklet' =
           IF IsEmpty(rd, wr)
             THEN [worklet EXCEPT !.rd = rd, !.wr = wr, !.samples_read = 0,
                                  !.ret = FALSE, !.pc = "done"]
             ELSE [worklet EXCEPT
                     !.rd = rd, !.wr = wr,
                     !.count = ToRead(rd, wr, Quantum),
                     !.planarBuffer =
                        CopyOut(denoised.storage, rd, ToRead(rd, wr, Quantum), @),
                     !.pc = "dequeueStore"]
  /\ UNCHANGED << elsewhere, raw, denoised, worker, inbox, events, main, hist >>

\* process_DequeueStore with the dequeue inside the loop over the channels:
\* each channel takes a quantum of its own from the channel.
process_DequeueStore_PerChannel ==
  /\ worklet.pc = "dequeueStore"
  /\ denoised' = [denoised EXCEPT
                    !.read_ptr = Advance(worklet.rd, worklet.count * worklet.channelCount)]
  /\ hist' = [hist EXCEPT !.drained = @ \o Slice(worklet.planarBuffer, 0, worklet.count)]
  /\ worklet' =
       [worklet EXCEPT
          !.samples_read = worklet.count, !.ret = TRUE, !.pc = "done",
          !.output = [c \in 1 .. worklet.channelCount |->
                        [i \in 0 .. Quantum - 1 |->
                           Get(denoised.storage,
                               Advance(worklet.rd, (c - 1) * worklet.count + i))]]]
  /\ UNCHANGED << elsewhere, raw, worker, inbox, events, main >>

\* dequeue: Atomics.store(this.read_ptr, 0, (rd + toRead) % storageCapacity);
\* return toRead.  Then process(): with samples_read < 128 it returns false;
\* otherwise outputChannel[i] = this.planarBuffer[i] for every channel of
\* outputList[0] and every i < 128, and it returns true.
process_DequeueStore ==
  /\ worklet.pc = "dequeueStore"
  /\ denoised' = [denoised EXCEPT !.read_ptr = Advance(worklet.rd, worklet.count)]
  /\ hist' = [hist EXCEPT !.drained = @ \o Slice(worklet.planarBuffer, 0, worklet.count)]
  /\ worklet' =
       IF worklet.count < Quantum
         THEN [worklet EXCEPT !.samples_read = worklet.count, !.ret = FALSE,
                              !.pc = "done"]
         ELSE [worklet EXCEPT
                 !.samples_read = worklet.count, !.ret = TRUE, !.pc = "done",
                 !.output = [c \in 1 .. worklet.channelCount |->
                               [i \in 0 .. Quantum - 1 |-> worklet.planarBuffer[i]]]]
  /\ UNCHANGED << elsewhere, raw, worker, inbox, events, main >>

\* A step of process().
process ==
  \/ process_Enqueue \/ process_EnqueueStore
  \/ process_AvailableRead \/ process_DequeueEmpty \/ process_DequeuePop
  \/ process_DequeueStore

\* ---- the worker: DeepFilterWorker

\* A handle of a created model (df_create returns a pointer).
Handle == 1

\* const suppression_level = 50: the level df_create gets when INIT names none.
suppression_level == 50

\* The worker has a message to handle and is between two readFromQueue() calls.
Receives(command) ==
  /\ worker.pc = "idle"
  /\ inbox # << >>
  /\ Head(inbox).command = command

\* onmessage, INIT, with a failure that still announces readiness: SETUP_AWP
\* is posted before the step that throws.
onmessage_INIT_Throws_Announced ==
  /\ Receives("INIT")
  /\ inbox' = Tail(inbox)
  /\ \E thrown \in {"initSync", "df_create", "df_get_frame_length"} :
       worker' = [worker EXCEPT
                    !.attached = TRUE,
                    !.df_model = IF thrown = "df_get_frame_length" THEN Handle ELSE @,
                    !.atten_lim = IF thrown = "df_get_frame_length"
                                    THEN Num(suppression_level) ELSE @,
                    !.init = thrown,
                    !.posted = @ \o << "SETUP_AWP", "ERROR" >>]
  /\ events' = events \o << "SETUP_AWP", "ERROR" >>
  /\ UNCHANGED << elsewhere, raw, denoised, worklet, main, hist >>

\* onmessage, INIT, when a step inside the try block throws: initSync,
\* df_create or df_get_frame_length.  _audio_reader and _audio_writer are
\* set before the try; df_model is set once df_create has returned; the
\* catch posts ERROR.
onmessage_INIT_Throws ==
  /\ Receives("INIT")
  /\ inbox' = Tail(inbox)
  /\ \E thrown \in {"initSync", "df_create", "df_get_frame_length"} :
       worker' = [worker EXCEPT
                    !.attached = TRUE,
                    !.df_model = IF thrown = "df_get_frame_length" THEN Handle ELSE @,
                    !.atten_lim = IF thrown = "df_get_frame_length"
                                    THEN Num(suppression_level) ELSE @,
                    !.init = thrown,
                    !.posted = Append(@, "ERROR")]
  /\ events' = Append(events, "ERROR")
  /\ UNCHANGED << elsewhere, raw, denoised, worklet, main, hist >>

\* onmessage, INIT, when nothing throws: the model is created, frame_length
\* and rawStorage are set, setInterval(readFromQueue, 0) starts the polling
\* loop, SETUP_AWP is posted.
onmessage_INIT ==
  /\ Receives("INIT")
  /\ inbox' = Tail(inbox)
  /\ worker' = [worker EXCEPT
                  !.attached = TRUE,
                  !.df_model = Handle,
                  !.atten_lim = Num(suppression_level),
                  !.frame_length = FrameLength,
                  !.rawStorage = Zeros(FrameLength),
                  !.interval = Handle,
                  !.timers = @ + 1,
                  !.init = "ok",
                  !.stopFramed = undefined,
                  !.posted = Append(@, "SETUP_AWP")]
  /\ events' = Append(events, "SETUP_AWP")
  /\ UNCHANGED << elsewhere, raw, denoised, worklet, main, hist >>

\* onmessage, STOP: if (interval !== null) { clearInterval(interval);
\* interval = null }
onmessage_STOP ==
  /\ Receives("STOP")
  /\ inbox' = Tail(inbox)
  /\ worker' = IF worker.interval # null
                 THEN [worker EXCEPT !.interval = null, !.timers = @ - 1,
                                     !.stopFramed = Len(hist.framed)]
                 ELSE [worker EXCEPT !.stopFramed = Len(hist.framed)]
  /\ UNCHANGED << elsewhere, raw, denoised, worklet, events, main, hist >>

\* onmessage, SET_BYPASS: bypass = Boolean(e.data.bypass)
onmessage_SET_BYPASS ==
  /\ Receives("SET_BYPASS")
  /\ inbox' = Tail(inbox)
  /\ worker' = [worker EXCEPT !.bypass = Head(inbox).bypass]
  /\ UNCHANGED << elsewhere, raw, denoised, worklet, events, main, hist >>

\* The test of readFromQueue() with any sample at all taken for a frame.
TooFewForFrame_AnySample(available, frame_length) == available < 1

\* The test of readFromQueue(): _audio_reader.availableRead() < frame_length.
TooFewForFrame(available, frame_length) == available < frame_length

\* The timer fires: readFromQueue() returns 0 without a reader or a model,
\* and with less than a frame in the raw channel (its two indices are loaded).
readFromQueue ==
  /\ worker.pc = "idle" /\ worker.timers > 0
  /\ LET available == availableReadInternal(raw.read_ptr, raw.write_ptr)
     IN  worker' =
           IF ~worker.attached \/ worker.df_model = null
             THEN worker
             ELSE IF TooFewForFrame(available, worker.frame_length)
                    THEN [worker EXCEPT !.available = available]
                    ELSE [worker EXCEPT !.available = available, !.pc = "dequeueEmpty"]
  /\ UNCHANGED << elsewhere, raw, denoised, worklet, inbox, events, main, hist >>

\* _audio_reader.dequeue(rawStorage): if (this.ringbuf.empty()) return 0;
\* the frame is then processed as rawStorage holds it.
readFromQueue_DequeueEmpty ==
  /\ worker.pc = "dequeueEmpty"
  /\ worker' =
       IF IsEmpty(raw.read_ptr, raw.write_ptr)
         THEN [worker EXCEPT !.samples_read = 0, !.count = 0, !.pc = "processFrame"]
         ELSE [worker EXCEPT !.pc = "dequeuePop"]
  /\ UNCHANGED << elsewhere, raw, denoised, worklet, inbox, events, main, hist >>

\* dequeue: pop(rawStorage): the two indices are loaded, toRead is computed
\* and the two copy() calls of pop fill rawStorage.
readFromQueue_DequeuePop ==
  /\ worker.pc = "dequeuePop"
  /\ LET rd == raw.read_ptr
         wr == raw.write_ptr
     IN  worker' =
           IF IsEmpty(rd, wr)
             THEN [worker EXCEPT !.rd = rd, !.wr = wr, !.samples_read = 0,
                                 !.count = 0, !.pc = "processFrame"]
             ELSE [worker EXCEPT
                     !.rd = rd, !.wr = wr,
                     !.count = ToRead(rd, wr, worker.frame_length),
                     !.rawStorage =
                        CopyOut(raw.storage, rd, ToRead(rd, wr, worker.frame_length), @),
                     !.pc = "dequeueStore"]
  /\ UNCHANGED << elsewhere, raw, denoised, worklet, inbox, events, main, hist >>

\* dequeue: Atomics.store(this.read_ptr, 0, (rd + toRead) % storageCapacity);
\* return toRead.
readFromQueue_DequeueStore ==
  /\ worker.pc = "dequeueStore"
  /\ raw' = [raw EXCEPT !.read_ptr = Advance(worker.rd, worker.count)]
  /\ hist' = [hist EXCEPT !.framed = @ \o Slice(worker.rawStorage, 0, worker.count)]
  /\ worker' = [worker EXCEPT !.samples_read = worker.count, !.pc = "processFrame"]
  /\ UNCHANGED << elsewhere, denoised, worklet, inbox, events, main >>

\* input_frame = rawStorage.subarray(0, samples_read); output_frame = bypass
\* ? input_frame : df_process_frame(df_model, input_frame); then
\* _audio_writer.enqueue(output_frame), that is push: the two indices of the
\* denoised channel are loaded; a full channel returns 0.
readFromQueue_Enqueue ==
  /\ worker.pc = "processFrame"
  /\ LET input_frame  == Subarray(worker.rawStorage, worker.samples_read)
         output_frame == IF worker.bypass THEN input_frame
                                          ELSE df_process_frame(input_frame)
         rd   == denoised.read_ptr
         wr   == denoised.write_ptr
         full == IsFull(rd, wr)
     IN  worker' = [worker EXCEPT
                      !.output_frame = output_frame,
                      !.rd = rd, !.wr = wr,
                      !.free = availableWriteInternal(rd, wr),
                      !.count = IF full THEN 0 ELSE ToWrite(rd, wr, worker.samples_read),
                      !.pc = IF full THEN "idle" ELSE "enqueueStore"]
  /\ UNCHANGED << elsewhere, raw, denoised, worklet, inbox, events, main, hist >>

\* enqueue: the two copy() calls of push, then Atomics.store(this.write_ptr,
\* 0, (wr + toWrite) % storageCapacity); its return value is not used;
\* readFromQueue() returns.
readFromQueue_EnqueueStore ==
  /\ worker.pc = "enqueueStore"
  /\ denoised' = [denoised EXCEPT
                    !.storage = CopyIn(@, worker.wr, worker.count, worker.output_frame),
                    !.write_ptr = Advance(worker.wr, worker.count)]
  /\ hist' = [hist EXCEPT
                !.produced = @ \o Slice(worker.output_frame, 0, worker.count)]
  /\ worker' = [worker EXCEPT !.pc = "idle"]
  /\ UNCHANGED << elsewhere, raw, worklet, inbox, events, main >>

\* ---- the main thread: WorkerManager and the processor

\* WorkerManager.handleWorkerMessage: FETCH_WASM sends the assets (INIT with
\* the two SharedArrayBuffers), SETUP_AWP resolves the ready promise, any
\* other message is dropped.
handleWorkerMessage ==
  /\ events # << >>
  /\ events' = Tail(events)
  /\ inbox' = IF Head(events) = "FETCH_WASM"
                THEN Append(inbox, Message("INIT", FALSE)) ELSE inbox
  /\ main' = IF Head(events) = "SETUP_AWP"
               THEN [main EXCEPT !.ready = @ \/ main.resolve, !.resolve = FALSE]
               ELSE main
  /\ UNCHANGED << elsewhere, raw, denoised, worklet, worker, hist >>

\* createAudioWorkletNode() of the processor that waits for the worker:
\* ensureInitialized(), then await WorkerManager.waitForWorkerReady(), which
\* awaits workerReadyPromise.  The call goes on in createAudioWorkletNode
\* once the promise is resolved.
waitForWorkerReady ==
  /\ main.worker /\ worklet.pc = "none" /\ ~main.awaiting
  /\ main' = [main EXCEPT !.awaiting = TRUE]
  /\ UNCHANGED << elsewhere, raw, denoised, worklet, worker, inbox, events, hist >>

\* createAudioWorkletNode(): the node is made, with channelCount output
\* channels (one, or as many as the bound allows); by the processor that
\* does not wait, whether or not the worker has announced readiness, and by
\* the processor that waits, once the ready promise is resolved.  The host
\* calls process() from then on.
createAudioWorkletNode ==
  /\ main.worker /\ worklet.pc = "none"
  /\ main.awaiting => main.ready
  /\ \E channelCount \in {1, MaxChannels} :
       worklet' = [NoWorklet EXCEPT !.pc = "idle", !.channelCount = channelCount]
  /\ main' = [main EXCEPT !.awaiting = FALSE]
  /\ UNCHANGED << elsewhere, raw, denoised, worker, inbox, events, hist >>

\* setNoiseSuppressionEnabled(enabled): bypassEnabled = !enabled, and
\* SET_BYPASS with it is posted to the worker.
setNoiseSuppressionEnabled ==
  /\ main.worker /\ main.posts < MaxPosts
  /\ \E enabled \in BOOLEAN :
       /\ main' = [main EXCEPT !.bypassEnabled = ~enabled, !.posts = @ + 1]
       /\ inbox' = Append(inbox, Message("SET_BYPASS", ~enabled))
  /\ UNCHANGED << elsewhere, raw, denoised, worklet, worker, events, hist >>

\* A STOP command is posted to the worker.
postStop ==
  /\ main.worker /\ main.posts < MaxPosts
  /\ main' = [main EXCEPT !.stopped = TRUE, !.posts = @ + 1]
  /\ inbox' = Append(inbox, Message("STOP", FALSE))
  /\ UNCHANGED << elsewhere, raw, denoised, worklet, worker, events, hist >>

\* The pipeline once the worker script has been loaded: it has posted
\* FETCH_WASM; the two channels are new and of PipeCap usable slots each.
InitPipe ==
  /\ storageCapacity = PipeCap + 1
  /\ storage = [j \in 0 .. storageCapacity - 1 |-> 0]
  /\ write_ptr = 0 /\ read_ptr = 0
  /\ prod = NoCall /\ cons = NoCall
  /\ nextVal = 0 /\ pushed = << >> /\ popped = << >> /\ log = << >>
  /\ seqMode = FALSE
  /\ build = NoBuild
  /\ raw = NewRing /\ denoised = NewRing
  /\ worklet = NoWorklet
  /\ worker = [NoWorker EXCEPT !.pc = "idle", !.posted = << "FETCH_WASM" >>]
  /\ inbox = << >>
  /\ events = << "FETCH_WASM" >>
  /\ main = [NoMain EXCEPT !.worker = TRUE, !.resolve = TRUE]
  /\ hist = NoHist
  /\ inline = NoInline

NextPipe ==
  \/ process_Enqueue \/ process_EnqueueStore
  \/ process_AvailableRead \/ process_DequeueEmpty \/ process_DequeuePop
  \/ process_DequeueStore
  \/ onmessage_INIT \/ onmessage_INIT_Throws \/ onmessage_STOP
  \/ onmessage_SET_BYPASS
  \/ readFromQueue \/ readFromQueue_DequeueEmpty \/ readFromQueue_DequeuePop
  \/ readFromQueue_DequeueStore
  \/ readFromQueue_Enqueue \/ readFromQueue_EnqueueStore
  \/ handleWorkerMessage \/ waitForWorkerReady \/ createAudioWorkletNode
  \/ setNoiseSuppressionEnabled \/ postStop

PipeSpec == InitPipe /\ [][NextPipe]_vars

\* The pipeline with the timer of setInterval(() => void readFromQueue(), 0)
\* firing again and again while it is set: each step of the polling callback
\* is taken once it can be (the callback has no await: it runs to its end).
PollingSpec ==
  /\ InitPipe /\ [][NextPipe]_vars
  /\ WF_vars(readFromQueue)
  /\ WF_vars(readFromQueue_DequeueEmpty)
  /\ WF_vars(readFromQueue_DequeuePop)
  /\ WF_vars(readFromQueue_DequeueStore)
  /\ WF_vars(readFromQueue_Enqueue)
  /\ WF_vars(readFromQueue_EnqueueStore)

\* ---- a host that uses the whole command interface, a transform that fails

\* An INIT command with the same two SharedArrayBuffers is posted to the
\* worker again, by a host that does so on its own.
postInit ==
  /\ main.worker /\ main.inits < MaxInits
  /\ main' = [main EXCEPT !.inits = @ + 1]
  /\ inbox' = Append(inbox, Message("INIT", FALSE))
  /\ UNCHANGED << elsewhere, raw, denoised, worklet, worker, events, hist >>

\* readFromQueue(): wasm_bindgen.df_process_frame(df_model, input_frame)
\* throws (for the first time).  The exception leaves the async function,
\* whose promise nobody awaits (setInterval(() => void readFromQueue(), 0)):
\* nothing is enqueued and the timer callback is over.
readFromQueue_Throws ==
  /\ worker.pc = "processFrame"
  /\ ~worker.bypass
  /\ worker.failFramed = undefined
  /\ worker' = [worker EXCEPT !.failFramed = Len(hist.framed), !.pc = "idle"]
  /\ UNCHANGED << elsewhere, raw, denoised, worklet, inbox, events, main, hist >>

NextFault == NextPipe \/ postInit \/ readFromQueue_Throws

FaultSpec == InitPipe /\ [][NextFault]_vars

\* ------------------------------- the processor with the model in the worklet
\*
\* DeepFilterNet3Processor runs the model inside its AudioWorkletProcessor.
\* A frame is known by the three features calculateDynamicSuppressionLevel()
\* takes from it: calculateRMS(frame), calculateZCR(frame) and
\* calculateSpectralCentroid(frame) / (frame.length / 2).

historySize == 2

\* Every variable but those of this processor and of the worker's commands.
apart ==
  << storageCapacity, storage, write_ptr, read_ptr, prod, cons, nextVal,
     pushed, popped, seqMode, log, build, raw, denoised, worklet, events,
     hist >>

speechEnergyThreshold == Rat(1, 100)

silenceEnergyThreshold == Rat(1, 1000)

speechZcrMin == Rat(5, 100)

speechZcrMax == Rat(35, 100)

smoothingFactor == Rat(3, 10)

\* history.push(value), and history.shift() once it is longer than historySize
Push(history, value) ==
  LET pushed_ == Append(history, value)
  IN  IF Len(pushed_) > historySize THEN Tail(pushed_) ELSE pushed_

\* history.reduce((a, b) => a + b, 0) / history.length
Average(history) == Over(Sum(history), Num(Len(history)))

\* Math.min(1, centroid / (frame.length / 2))
NormalizedCentroid(centroid) == MathMin(Num(1), centroid)

\* The target of a frame of active speech with the energy factor not
\* normalised and the result not clamped.
speechLevel_Unclamped(rms, normalizedCentroid) ==
  Minus(Minus(Num(60), Times(Over(rms, Rat(1, 10)), Num(20))),
        Times(normalizedCentroid, Num(10)))

\* The target of a frame of active speech: the energy factor rms / 0.1 and
\* the spectral factor, each at most 1, lower it from 60; Math.max(30,
\* Math.min(60, ...)).
speechLevel(rms, normalizedCentroid) ==
  LET energyFactor == MathMin(Num(1), Over(rms, Rat(1, 10)))
      spectralFactor == normalizedCentroid
  IN  MathMax(Num(30),
        MathMin(Num(60),
          Minus(Minus(Num(60), Times(energyFactor, Num(20))),
                Times(spectralFactor, Num(10)))))

\* The decision logic of calculateDynamicSuppressionLevel(): the if / else
\* if chain, in its order, with its strict comparisons.
targetLevel(rms, avgZCR, avgEnergy, normalizedCentroid, manualSuppressionLevel) ==
  IF Less(rms, silenceEnergyThreshold)
    THEN Num(85)
  ELSE IF /\ Less(speechEnergyThreshold, rms)
          /\ Less(speechZcrMin, avgZCR)
          /\ Less(avgZCR, speechZcrMax)
    THEN speechLevel(rms, normalizedCentroid)
  ELSE IF Less(speechEnergyThreshold, rms) /\ Less(speechZcrMax, avgZCR)
    THEN Num(45)
  ELSE IF Less(silenceEnergyThreshold, rms) /\ Less(rms, speechEnergyThreshold)
    THEN Minus(Num(70), Times(Over(avgEnergy, speechEnergyThreshold), Num(20)))
  ELSE manualSuppressionLevel

\* currentSuppressionLevel * (1 - smoothingFactor) + targetLevel * smoothingFactor
smoothedLevel(currentSuppressionLevel, target) ==
  Plus(Times(currentSuppressionLevel, Minus(Num(1), smoothingFactor)),
       Times(target, smoothingFactor))

\* Math.floor(smoothedLevel), without the two limits.
Limited_Unlimited(smoothed) == MathFloor(smoothed)

\* Math.max(10, Math.min(95, Math.floor(smoothedLevel)))
Limited(smoothed) == MathMax(Num(10), MathMin(Num(95), MathFloor(smoothed)))


\* calculateDynamicSuppressionLevel(frame): the histories after the frame, and
\* the analysis of the frame with the level it returns.
calculateDynamicSuppressionLevel(rms, zcr, centroid) ==
  LET energyHistory == Push(inline.energyHistory, rms)
      zcRateHistory == Push(inline.zcRateHistory, zcr)
      avgEnergy == Average(energyHistory)
      avgZCR == Average(zcRateHistory)
      normalizedCentroid == NormalizedCentroid(centroid)
      target == targetLevel(rms, avgZCR, avgEnergy, normalizedCentroid,
                            inline.manualSuppressionLevel)
  IN  [energyHistory |-> energyHistory, zcRateHistory |-> zcRateHistory,
       analysis |->
         [rms |-> rms, avgZCR |-> Lowest(avgZCR), avgEnergy |-> Lowest(avgEnergy),
          normalizedCentroid |-> normalizedCentroid,
          manual |-> inline.manualSuppressionLevel,
          targetLevel |-> Lowest(target),
          current |-> inline.currentSuppressionLevel,
          newLevel |->
            Limited(smoothedLevel(inline.currentSuppressionLevel, target)),
          set |-> FALSE]]

\* The test of process() with every computed level applied.
Differs_Always(newLevel, currentSuppressionLevel) == TRUE

\* Math.abs(newLevel - this.currentSuppressionLevel) >= 1
Differs(newLevel, currentSuppressionLevel) ==
  AtMost(Num(1), MathAbs(Minus(newLevel, currentSuppressionLevel)))

\* process(), one turn of the frame loop as far as the suppression level goes
\* (the frame has been taken from the input ring): with dynamic suppression
\* enabled the frame is analysed and the new level applied if it differs
\* from the current one by 1 or more.  (result, newLevel and differs are
\* the one value each: the call is made once.)
Analyse(rms, zcr, centroid) ==
  /\ inline.isInitialized /\ inline.dfModel # null /\ ~inline.bypass
  /\ inline.dynamicSuppressionEnabled
  /\ \E result \in { calculateDynamicSuppressionLevel(rms, zcr, centroid) } :
     \E newLevel \in { result.analysis.newLevel } :
     \E differs \in { Differs(newLevel, inline.currentSuppressionLevel) } :
       inline' =
         [inline EXCEPT
            !.energyHistory = result.energyHistory,
            !.zcRateHistory = result.zcRateHistory,
            !.analysis = [result.analysis EXCEPT !.set = differs],
            !.currentSuppressionLevel = IF differs THEN newLevel ELSE @,
            !.atten_lim = IF differs THEN newLevel ELSE @,
            !.adapted = @ \/ differs]
  /\ UNCHANGED << apart, main, worker, inbox >>

\* The worklet as its constructor leaves it: the model created with the
\* suppressionLevel of the processor options, which is the manual and the
\* current level, and dynamic suppression as the options say.
Constructed(initialLevel, dynamicSuppression) ==
  [NoInline EXCEPT
     !.noiseReductionLevel = initialLevel,
     !.dynamicSuppression = dynamicSuppression,
     !.assets = TRUE, !.workletNode = TRUE, !.isInitialized = TRUE,
     !.dfModel = Handle,
     !.atten_lim = initialLevel, !.manualSuppressionLevel = initialLevel,
     !.currentSuppressionLevel = initialLevel,
     !.dynamicSuppressionEnabled = dynamicSuppression]

\* No RingBuffer call in progress, no pipeline with a worker.
NothingElse ==
  /\ storageCapacity = 2
  /\ storage = [j \in 0 .. storageCapacity - 1 |-> 0]
  /\ write_ptr = 0 /\ read_ptr = 0
  /\ prod = NoCall /\ cons = NoCall
  /\ nextVal = 0 /\ pushed = << >> /\ popped = << >> /\ log = << >>
  /\ seqMode = FALSE
  /\ build = NoBuild
  /\ raw = NewRing /\ denoised = NewRing
  /\ worklet = NoWorklet
  /\ events = << >>
  /\ hist = NoHist

\* ---- the decision for one frame
\*
\* calculateDynamicSuppressionLevel() as a function of the frame and of what
\* the controller holds: the two histories, the manual and the current level.

\* calculateRMS(frame): below, on, between and above the two thresholds, and
\* below, on and above the 0.1 of the energy factor.
RmsValues ==
  { Num(0), Rat(1, 2000), Rat(1, 1000), Rat(1, 200), Rat(1, 100), Rat(1, 20),
    Rat(1, 10), Rat(1, 5) }

\* calculateZCR(frame): below, on, between and above speechZcrMin and
\* speechZcrMax.
ZcrValues == { Num(0), Rat(5, 100), Rat(2, 10), Rat(35, 100), Rat(1, 2) }

\* calculateSpectralCentroid(frame) / (frame.length / 2): from 0 to just
\* under 2.
Centroids == { Num(0), Rat(1, 2), Num(1), Rat(3, 2) }

\* Levels a manual request leaves, levels the controller leaves.
ManualLevels == { Num(0), Num(50), Num(100) }

DynamicLevels == { Num(10), Num(50), Num(95) }

\* The worklet runs with dynamic suppression enabled; it has analysed no
\* frame, or one.
InitDecision ==
  /\ NothingElse
  /\ main = NoMain
  /\ worker = NoWorker
  /\ inbox = << >>
  /\ \E manual \in ManualLevels, current \in DynamicLevels,
        energyHistory \in {<< >>} \cup { << rms >> : rms \in RmsValues },
        zcRateHistory \in {<< >>} \cup { << zcr >> : zcr \in ZcrValues } :
       /\ Len(energyHistory) = Len(zcRateHistory)
       /\ inline = [Constructed(manual, TRUE) EXCEPT
                      !.currentSuppressionLevel = current,
                      !.atten_lim = current,
                      !.energyHistory = energyHistory,
                      !.zcRateHistory = zcRateHistory]

\* The next frame is analysed.
decide ==
  /\ inline.analysis = NoAnalysis
  /\ \E rms \in RmsValues, zcr \in ZcrValues, centroid \in Centroids :
       Analyse(rms, zcr, centroid)

NextDecision == decide

DecisionSpec == InitDecision /\ [][NextDecision]_vars

\* ---- the suppression level, requested and adapted

MaxPort == 1

\* setSuppressionLevel(level) with the level posted as it came.
clampedLevel_Unchanged(level) == level

\* Math.max(0, Math.min(100, Math.floor(level)))
clampedLevel(level) == MathMax(Num(0), MathMin(Num(100), MathFloor(level)))

\* isNaN(level)
isNaN(level) == level = NoLevel

\* Levels an application asks for: below 0, a fraction, above 100; NaN.
RequestedLevels == { Rat(0 - 1, 2), Rat(267, 10), Num(250), NoLevel }

\* noiseReductionLevel of the processor's config: the default and a fraction.
ConfigLevels == { Num(50), Rat(396, 5) }

\* The frames of this part: silence, and loud speech with its energy late in
\* the frame.
Frames ==
  { [rms |-> Num(0), zcr |-> Rat(2, 10), centroid |-> Num(0)],
    [rms |-> Rat(1, 5), zcr |-> Rat(2, 10), centroid |-> Num(1)] }

\* A message on the node's port; asked: the argument of the call behind it.
WorkletMessage(type, value, asked) ==
  [type |-> type, value |-> value, asked |-> asked]

\* createAudioWorkletNode(): the node is created with the processor options
\* from the config; the worklet's constructor succeeds.
DeepFilterNet3Processor_createAudioWorkletNode ==
  /\ inline.assets /\ ~inline.workletNode
  /\ inline' = Constructed(inline.noiseReductionLevel, inline.dynamicSuppression)
  /\ UNCHANGED << apart, main, worker, inbox >>

\* createAudioWorkletNode() when the worklet's constructor catches an error
\* of initSync, df_create or df_get_frame_length: isInitialized stays false
\* and port.onmessage is not set.
DeepFilterNet3Processor_createAudioWorkletNode_Throws ==
  /\ inline.assets /\ ~inline.workletNode
  /\ inline' = [inline EXCEPT !.workletNode = TRUE]
  /\ UNCHANGED << apart, main, worker, inbox >>

\* DeepFilterNet3Processor.setSuppressionLevel(level): returns without a node
\* or for NaN, else posts SET_SUPPRESSION_LEVEL with the clamped level.
DeepFilterNet3Processor_setSuppressionLevel ==
  /\ inline.assets /\ Len(inline.port) < MaxPort
  /\ \E level \in RequestedLevels :
       inline' =
         IF ~inline.workletNode \/ isNaN(level)
           THEN inline
           ELSE [inline EXCEPT
                   !.port = Append(@, WorkletMessage("SET_SUPPRESSION_LEVEL",
                                                     clampedLevel(level), level))]
  /\ UNCHANGED << apart, main, worker, inbox >>

\* DeepFilterNet3Processor.setDynamicSuppression(enabled)
setDynamicSuppression ==
  /\ inline.workletNode /\ Len(inline.port) < MaxPort
  /\ \E enabled \in BOOLEAN :
       inline' = [inline EXCEPT
                    !.dynamicSuppression = enabled,
                    !.port = Append(@, WorkletMessage("SET_DYNAMIC_SUPPRESSION",
                                                      enabled, NoLevel))]
  /\ UNCHANGED << apart, main, worker, inbox >>

\* The worklet has a message to handle (port.onmessage is set by a constructor
\* that succeeded).
Handles(type) ==
  /\ inline.isInitialized
  /\ inline.port # << >>
  /\ Head(inline.port).type = type

\* handleMessage, SET_SUPPRESSION_LEVEL: the level is clamped again and kept
\* as the manual level; with dynamic suppression off it becomes the current
\* level and is given to the model.
handleMessage_SET_SUPPRESSION_LEVEL ==
  /\ Handles("SET_SUPPRESSION_LEVEL")
  /\ LET data == Head(inline.port)
         level == MathMax(Num(0), MathMin(Num(100), MathFloor(data.value)))
         manual == ~inline.dynamicSuppressionEnabled
     IN  inline' =
           [inline EXCEPT
              !.port = Tail(@),
              !.manualSuppressionLevel = level,
              !.asked = data.asked,
              !.currentSuppressionLevel = IF manual THEN level ELSE @,
              !.atten_lim = IF manual THEN level ELSE @,
              !.request = IF manual
                            THEN [asked |-> data.asked, applied |-> level]
                            ELSE @,
              !.analysis = NoAnalysis,
              !.deferred = ~manual, !.adapted = FALSE]
  /\ UNCHANGED << apart, main, worker, inbox >>

\* handleMessage, SET_DYNAMIC_SUPPRESSION with nothing but the flag set.
handleMessage_SET_DYNAMIC_SUPPRESSION_FlagOnly ==
  /\ Handles("SET_DYNAMIC_SUPPRESSION")
  /\ inline' = [inline EXCEPT
                  !.port = Tail(@),
                  !.dynamicSuppressionEnabled = Head(inline.port).value,
                  !.analysis = NoAnalysis]
  /\ UNCHANGED << apart, main, worker, inbox >>

\* handleMessage, SET_DYNAMIC_SUPPRESSION: when dynamic suppression is
\* disabled the manual level becomes the current level and is given to the
\* model.
handleMessage_SET_DYNAMIC_SUPPRESSION ==
  /\ Handles("SET_DYNAMIC_SUPPRESSION")
  /\ LET enabled == Head(inline.port).value
         manual == inline.manualSuppressionLevel
     IN  inline' =
           [inline EXCEPT
              !.port = Tail(@),
              !.dynamicSuppressionEnabled = enabled,
              !.currentSuppressionLevel = IF ~enabled THEN manual ELSE @,
              !.atten_lim = IF ~enabled THEN manual ELSE @,
              !.request = IF ~enabled /\ inline.asked # NoLevel
                            THEN [asked |-> inline.asked, applied |-> manual]
                            ELSE @,
              !.analysis = NoAnalysis]
  /\ UNCHANGED << apart, main, worker, inbox >>

\* process(): a frame goes through the frame loop.
processFrame ==
  \E frame \in Frames : Analyse(frame.rms, frame.zcr, frame.centroid)

\* setSuppressionLevel(level) of the processor with the worker: returns
\* without a worker or for NaN, else posts SET_SUPPRESSION_LEVEL with the
\* clamped level to the worker.
setSuppressionLevel ==
  /\ main.worker /\ Len(inbox) < MaxPort
  /\ \E level \in RequestedLevels :
       inbox' =
         IF isNaN(level)
           THEN inbox
           ELSE Append(inbox, [command |-> "SET_SUPPRESSION_LEVEL",
                               level |-> clampedLevel(level), asked |-> level])
  /\ UNCHANGED << apart, main, worker, inline >>

\* onmessage, SET_SUPPRESSION_LEVEL: a level from 0 to 100 is given to the
\* model, if there is one.
onmessage_SET_SUPPRESSION_LEVEL ==
  /\ Receives("SET_SUPPRESSION_LEVEL")
  /\ inbox' = Tail(inbox)
  /\ LET newLevel == Head(inbox).level
     IN  worker' =
           IF /\ worker.df_model # null
              /\ AtMost(Num(0), newLevel) /\ AtMost(newLevel, Num(100))
             THEN [worker EXCEPT
                     !.atten_lim = newLevel,
                     !.request = [asked |-> Head(inbox).asked,
                                  applied |-> newLevel]]
             ELSE worker
  /\ UNCHANGED << apart, main, inline >>

\* The worker after an INIT that succeeded.
Running ==
  [NoWorker EXCEPT
     !.pc = "idle", !.attached = TRUE, !.df_model = Handle,
     !.atten_lim = Num(suppression_level), !.frame_length = FrameLength,
     !.rawStorage = Zeros(FrameLength), !.interval = Handle, !.timers = 1,
     !.init = "ok", !.posted = << "FETCH_WASM", "SETUP_AWP" >>]

\* An application with one of the two processors: the one with the model in
\* the worklet, initialised, with its config; or the one with the worker,
\* whose INIT is still to come or has succeeded.
InitLevel ==
  /\ NothingElse
  /\ inbox = << >>
  /\ \/ /\ main = NoMain
        /\ worker = NoWorker
        /\ \E noiseReductionLevel \in ConfigLevels, dynamicSuppression \in BOOLEAN :
             inline = [NoInline EXCEPT
                         !.assets = TRUE,
                         !.noiseReductionLevel = noiseReductionLevel,
                         !.dynamicSuppression = dynamicSuppression]
     \/ /\ inline = NoInline
        /\ \/ /\ worker = [NoWorker EXCEPT !.pc = "idle",
                                           !.posted = << "FETCH_WASM" >>]
              /\ main = [NoMain EXCEPT !.worker = TRUE, !.resolve = TRUE]
           \/ /\ worker = Running
              /\ main = [NoMain EXCEPT !.worker = TRUE, !.ready = TRUE]

NextLevel ==
  \/ DeepFilterNet3Processor_createAudioWorkletNode
  \/ DeepFilterNet3Processor_createAudioWorkletNode_Throws
  \/ DeepFilterNet3Processor_setSuppressionLevel
  \/ setDynamicSuppression
  \/ handleMessage_SET_SUPPRESSION_LEVEL
  \/ handleMessage_SET_DYNAMIC_SUPPRESSION
  \/ processFrame
  \/ setSuppressionLevel \/ onmessage_SET_SUPPRESSION_LEVEL

LevelSpec == InitLevel /\ [][NextLevel]_vars

\* ---- unbroken runs of frames of one kind
\*
\* Dynamic suppression is enabled and frame after frame is analysed; the audio
\* callback keeps delivering frames, so a frame that can be analysed is
\* analysed in the end.

\* The levels the worklet can hold as current when a run begins: an integer
\* a manual request or the controller has left, or the suppressionLevel
\* option as the constructor took it.
StartLevels == { Num(k) : k \in 0 .. 100 } \cup { Rat(396, 5) }

\* The worklet with dynamic suppression enabled, before the run.
InitRun ==
  /\ NothingElse
  /\ main = NoMain
  /\ worker = NoWorker
  /\ inbox = << >>
  /\ \E level \in StartLevels : inline = Constructed(level, TRUE)

\* Frames of silence: rms below silenceEnergyThreshold.
SilentFrames ==
  { [rms |-> rms, zcr |-> zcr, centroid |-> Num(0)] :
      rms \in { Num(0), Rat(1, 2000) }, zcr \in { Num(0), Rat(1, 2) } }

\* process(): a silent frame goes through the frame loop.
processSilentFrame ==
  \E frame \in SilentFrames : Analyse(frame.rms, frame.zcr, frame.centroid)

NextSilence == processSilentFrame

SilenceSpec ==
  InitRun /\ [][NextSilence]_vars /\ WF_vars(processSilentFrame)

\* Frames of active speech: rms above speechEnergyThreshold and a zero
\* crossing rate between speechZcrMin and speechZcrMax, so that avgZCR, an
\* average of such rates, lies between the two as well.
SpeechFrames ==
  { [rms |-> rms, zcr |-> zcr, centroid |-> centroid] :
      rms \in { Rat(1, 5) }, zcr \in { Rat(1, 10), Rat(3, 10) },
      centroid \in { Num(0), Rat(1, 2), Num(1) } }

\* process(): a frame of active speech goes through the frame loop.
processSpeechFrame ==
  \E frame \in SpeechFrames : Analyse(frame.rms, frame.zcr, frame.centroid)

NextSpeech == processSpeechFrame

SpeechSpec ==
  InitRun /\ [][NextSpeech]_vars /\ WF_vars(processSpeechFrame)

\* ---- the two rings inside the worklet
\*
\* process() of the worklet that holds the model keeps the input in
\* inputBuffer until a model frame is complete and the processed frames in
\* outputBuffer until a quantum is complete.  The samples of the calls that
\* are not pass-through are the numbers 1, 2, 3, ... in the order of their
\* arrival; those of a pass-through call are numbered below zero.  Dynamic
\* suppression, which touches the level and never the rings, is off here.

\* The length of inputList[0][0], the render quantum of the Web Audio API,
\* which is also the number of samples process() copies out at a time.
RenderQuantum == 128

\* The number of process() calls of one run.
MaxQuanta == 10

\* The frame lengths df_get_frame_length(handle) reports in this part: the
\* shipped model's (480) and shorter ones.
FrameLengths == { 32, 43, 480 }

\* new Float32Array(n) of the rings, indexed from 0
NewRings(frameLength) ==
  [NoRings EXCEPT
     !.frameLength = frameLength,
     !.bufferSize = frameLength * 4,
     !.inputBuffer = Zeros(frameLength * 4),
     !.outputBuffer = Zeros(frameLength * 4),
     !.tempFrame = Zeros(frameLength)]

\* (writePos - readPos + bufferSize) % bufferSize, of getInputAvailable() and
\* getOutputAvailable()
Available(writePos, readPos, bufferSize) ==
  (writePos - readPos + bufferSize) % bufferSize

\* getInputAvailable()
getInputAvailable(r) == Available(r.inputWritePos, r.inputReadPos, r.bufferSize)

\* getOutputAvailable()
getOutputAvailable(r) == Available(r.outputWritePos, r.outputReadPos, r.bufferSize)

\* for (i < n) { buffer[pos] = elements[i]; pos = (pos + 1) % bufferSize }:
\* slot p holds the last of the elements written to it, if any.
WriteRing(buffer, pos, elements, n, bufferSize) ==
  [p \in 0 .. bufferSize - 1 |->
     LET k == (p - pos + bufferSize) % bufferSize
     IN  IF k < n THEN elements[k + bufferSize * ((n - 1 - k) \div bufferSize)]
                  ELSE buffer[p]]

\* for (i < n) { out[i] = buffer[pos]; pos = (pos + 1) % bufferSize }
ReadRing(buffer, pos, n, bufferSize) ==
  [i \in 0 .. n - 1 |-> buffer[(pos + i) % bufferSize]]

\* The elements of an array, as a sequence.
AsSeq(a, n) == [i \in 1 .. n |-> a[i - 1]]

\* while (this.getInputAvailable() >= frameLength) { ... }: a frame is
\* extracted into tempFrame, processed, and written to the output ring.
RECURSIVE FrameLoop(_, _, _)
FrameLoop(inputBuffer, inputWritePos, r) ==
  IF Available(inputWritePos, r.inputReadPos, r.bufferSize) >= r.frameLength
    THEN LET tempFrame == ReadRing(inputBuffer, r.inputReadPos, r.frameLength,
                                   r.bufferSize)
             processed == df_process_frame(tempFrame)
         IN  FrameLoop(inputBuffer, inputWritePos,
               [r EXCEPT
                  !.tempFrame = tempFrame,
                  !.inputReadPos = (@ + r.frameLength) % r.bufferSize,
                  !.outputBuffer = WriteRing(@, r.outputWritePos, processed,
                                             r.frameLength, r.bufferSize),
                  !.outputWritePos = (@ + r.frameLength) % r.bufferSize,
                  !.frames = @ \o AsSeq(tempFrame, r.frameLength),
                  !.extracted = @ + r.frameLength,
                  !.produced = @ + r.frameLength])
    ELSE r

\* The input sample a processed sample was made of.
Source(x) == x - 100

\* The input sample the last sample output so far was made of.
LastSource(r) ==
  IF r.passed \/ r.output = << >> THEN r.lastOut
                                   ELSE Source(r.output[RenderQuantum - 1])

\* process() past the pass-through test: the input is written to the input
\* ring, the frame loop runs, and a quantum is copied out of the output ring
\* if getOutputAvailable() >= 128.
Processed(r) ==
  LET input == [i \in 0 .. RenderQuantum - 1 |-> r.fed + i + 1]
      written == WriteRing(r.inputBuffer, r.inputWritePos, input,
                           RenderQuantum, r.bufferSize)
      inputWritePos == (r.inputWritePos + RenderQuantum) % r.bufferSize
      looped == FrameLoop(written, inputWritePos,
                          [r EXCEPT !.frames = << >>, !.lastOut = LastSource(r)])
      outputAvailable == getOutputAvailable(looped)
  IN  [looped EXCEPT
         !.inputBuffer = written,
         !.inputWritePos = inputWritePos,
         !.fed = @ + RenderQuantum,
         !.ticks = @ + 1,
         !.passed = FALSE,
         !.output = IF outputAvailable >= RenderQuantum
                      THEN ReadRing(looped.outputBuffer, looped.outputReadPos,
                                    RenderQuantum, looped.bufferSize)
                      ELSE << >>,
         !.outputReadPos = IF outputAvailable >= RenderQuantum
                             THEN (@ + RenderQuantum) % looped.bufferSize
                             ELSE @,
         !.drained = IF outputAvailable >= RenderQuantum
                       THEN @ + RenderQuantum ELSE @]

\* process() in pass-through mode: output[channelNum].set(input)
PassedThrough_(r) ==
  [r EXCEPT
     !.ticks = @ + 1,
     !.passed = TRUE,
     !.output = [i \in 0 .. RenderQuantum - 1 |-> 0 - (i + 1)],
     !.frames = << >>,
     !.lastOut = LastSource(r)]

\* process(inputList, outputList) of the worklet that holds the model
DeepFilterAudioProcessor_process ==
  /\ inline.workletNode
  /\ inline.rings.ticks < MaxQuanta
  /\ inline' =
       [inline EXCEPT
          !.rings = IF \/ ~inline.isInitialized \/ inline.dfModel = null
                       \/ inline.bypass \/ @.tempFrame = << >>
                      THEN PassedThrough_(@)
                      ELSE Processed(@)]
  /\ UNCHANGED << apart, main, worker, inbox >>

\* DeepFilterNet3Processor.setNoiseSuppressionEnabled(enabled): returns
\* without a node; else bypassEnabled = !enabled and SET_BYPASS is posted.
SetNoiseSuppressionEnabled(p, enabled) ==
  IF ~p.workletNode
    THEN p
    ELSE [p EXCEPT
            !.bypassEnabled = ~enabled,
            !.port = Append(@, WorkletMessage("SET_BYPASS", ~enabled, NoLevel))]

DeepFilterNet3Processor_setNoiseSuppressionEnabled ==
  /\ inline.assets /\ Len(inline.port) < MaxPort
  /\ \E enabled \in BOOLEAN :
       inline' = SetNoiseSuppressionEnabled(inline, enabled)
  /\ UNCHANGED << apart, main, worker, inbox >>

\* handleMessage, SET_BYPASS: this.bypass = Boolean(data.value); nothing else
\* is touched.
handleMessage_SET_BYPASS ==
  /\ Handles("SET_BYPASS")
  /\ LET value == Head(inline.port).value
     IN  inline' =
           [inline EXCEPT
              !.port = Tail(@),
              !.bypass = value,
              !.rings.mark = IF inline.bypass /\ ~value THEN inline.rings.fed
                                                       ELSE @,
              !.rings.markedAt = IF inline.bypass /\ ~value
                                   THEN inline.rings.ticks ELSE @]
  /\ UNCHANGED << apart, main, worker, inbox >>

\* The worklet after its constructor, for each frame length, with the
\* default options.
InitRings ==
  /\ NothingElse
  /\ inbox = << >>
  /\ main = NoMain
  /\ worker = NoWorker
  /\ \E frameLength \in FrameLengths :
       inline = [Constructed(Num(50), FALSE) EXCEPT
                   !.rings = NewRings(frameLength)]

NextRings ==
  \/ DeepFilterAudioProcessor_process
  \/ DeepFilterNet3Processor_setNoiseSuppressionEnabled
  \/ handleMessage_SET_BYPASS

RingsSpec == InitRings /\ [][NextRings]_vars

\* ---- the LiveKit track processor
\*
\* DeepFilterNoiseFilterProcessor owns a DeepFilterNet3Processor (the one with
\* the model in the worklet) and builds the audio graph around its node.
\* init and restart await ensureGraph(), which awaits initialize() and
\* createAudioWorkletNode(); the application's other calls can come in
\* between.  The worklet's constructor succeeds.

\* The levels an application asks this processor for: below 0, in range,
\* above 100; NaN.
FilterLevels == { Rat(0 - 1, 2), Num(30), Num(250), NoLevel }

\* teardownGraph(): the filter's nodes are disconnected and forgotten, the
\* context is closed.
teardownGraph(f) ==
  [f EXCEPT !.workletNode = FALSE, !.audioContext = FALSE]

\* ensureGraph() up to await this.processor.initialize(): throws without a
\* source track.
ensureGraph(f) ==
  IF ~f.originalTrack
    THEN f
    ELSE [f EXCEPT !.audioContext = TRUE, !.pc = "initialize"]

\* init({ track }): originalTrack = track; await ensureGraph()
DeepFilterNoiseFilterProcessor_init ==
  /\ inline.filter.pc = "idle"
  /\ inline' = [inline EXCEPT
                  !.filter = ensureGraph([@ EXCEPT !.originalTrack = TRUE,
                                                   !.completed = FALSE])]
  /\ UNCHANGED << apart, main, worker, inbox >>

\* restart(): await teardownGraph(); await ensureGraph()
DeepFilterNoiseFilterProcessor_restart ==
  /\ inline.filter.pc = "idle"
  /\ inline' = [inline EXCEPT
                  !.filter = ensureGraph(teardownGraph([@ EXCEPT
                                                         !.completed = FALSE]))]
  /\ UNCHANGED << apart, main, worker, inbox >>

\* ensureGraph(): await this.processor.initialize() returns: the assets are
\* loaded (or were).
ensureGraph_initialize ==
  /\ inline.filter.pc = "initialize"
  /\ inline' = [inline EXCEPT !.assets = TRUE,
                              !.filter.pc = "createAudioWorkletNode"]
  /\ UNCHANGED << apart, main, worker, inbox >>

\* ensureGraph(): await this.processor.createAudioWorkletNode() throws if the
\* processor has been destroyed meanwhile; else a new node is made with the
\* config's level, the graph is connected and setEnabled(this.enabled) is
\* called.
ensureGraph_createAudioWorkletNode ==
  /\ inline.filter.pc = "createAudioWorkletNode"
  /\ inline' =
       IF ~inline.assets
         THEN [inline EXCEPT !.filter.pc = "idle"]
         ELSE SetNoiseSuppressionEnabled(
                [Constructed(inline.noiseReductionLevel, inline.dynamicSuppression)
                   EXCEPT !.bypassEnabled = inline.bypassEnabled,
                          !.filter = [inline.filter EXCEPT
                                        !.workletNode = TRUE,
                                        !.pc = "idle",
                                        !.completed = TRUE]],
                inline.filter.enabled)
  /\ UNCHANGED << apart, main, worker, inbox >>

\* setEnabled(enable): this.enabled = enable;
\* this.processor.setNoiseSuppressionEnabled(enable)
DeepFilterNoiseFilterProcessor_setEnabled ==
  /\ Len(inline.port) < MaxPort
  /\ \E enable \in BOOLEAN :
       inline' = SetNoiseSuppressionEnabled(
                   [inline EXCEPT !.filter.enabled = enable], enable)
  /\ UNCHANGED << apart, main, worker, inbox >>

\* setSuppressionLevel(level): this.processor.setSuppressionLevel(level),
\* which returns without a node or for NaN, else posts SET_SUPPRESSION_LEVEL
\* with the clamped level.
DeepFilterNoiseFilterProcessor_setSuppressionLevel ==
  /\ Len(inline.port) < MaxPort
  /\ \E level \in FilterLevels :
       inline' =
         IF isNaN(level)
           THEN inline
         ELSE IF ~inline.workletNode
           THEN [inline EXCEPT !.filter.wanted = level]
           ELSE [inline EXCEPT
                   !.filter.wanted = level,
                   !.port = Append(@, WorkletMessage("SET_SUPPRESSION_LEVEL",
                                                     clampedLevel(level), level))]
  /\ UNCHANGED << apart, main, worker, inbox >>

\* destroy(): await teardownGraph(); this.processor.destroy(), which returns
\* if the processor is not initialised, else forgets the node and the assets.
DeepFilterNoiseFilterProcessor_destroy ==
  /\ inline' =
       IF ~inline.assets
         THEN [inline EXCEPT
                 !.filter = teardownGraph([@ EXCEPT !.completed = FALSE])]
         ELSE [inline EXCEPT
                 !.filter = teardownGraph([@ EXCEPT !.completed = FALSE]),
                 !.workletNode = FALSE,
                 !.assets = FALSE]
  /\ UNCHANGED << apart, main, worker, inbox >>

\* new DeepFilterNoiseFilterProcessor(options): enabled = options.enabled ??
\* true, noiseReductionLevel ?? 80.
InitFilter ==
  /\ NothingElse
  /\ inbox = << >>
  /\ main = NoMain
  /\ worker = NoWorker
  /\ \E enabled \in BOOLEAN :
       inline = [NoInline EXCEPT
                   !.noiseReductionLevel = Num(80),
                   !.filter.enabled = enabled]

NextFilter ==
  \/ DeepFilterNoiseFilterProcessor_init
  \/ DeepFilterNoiseFilterProcessor_restart
  \/ ensureGraph_initialize
  \/ ensureGraph_createAudioWorkletNode
  \/ DeepFilterNoiseFilterProcessor_setEnabled
  \/ DeepFilterNoiseFilterProcessor_setSuppressionLevel
  \/ DeepFilterNoiseFilterProcessor_destroy
  \/ handleMessage_SET_BYPASS
  \/ handleMessage_SET_SUPPRESSION_LEVEL

FilterSpec == InitFilter /\ [][NextFilter]_vars

\* ---- the shared worker of WorkerManager
\*
\* WorkerManager keeps the worker, the assets and the ready promise in static
\* fields: every manager of the page reads and writes the same ones.  The
\* application calls initialize() and destroy() of its processors, and a host
\* may call the public methods of WorkerManager on its own.  A message of a
\* terminated worker is never delivered.

\* worker.terminate()
Terminated(workers, w) ==
  IF w = null THEN workers ELSE [workers EXCEPT ![w].terminated = TRUE]

\* createWorkerFromBlob(): the registered worker, if any, is terminated; a
\* new one is made, with this manager's handleWorkerMessage as its
\* onmessage, and registered.
CreatedWorker(sh, m) ==
  [sh EXCEPT
     !.workers = Append(Terminated(@, sh.worker),
                        [creator |-> m, state |-> "loading",
                         terminated |-> FALSE, inbox |-> << >>,
                         attached |-> 0]),
     !.worker = Len(sh.workers) + 1]

\* WorkerManager.clearSharedWorker(): worker?.terminate(); worker = null
ClearedSharedWorker(sh) ==
  [sh EXCEPT !.workers = Terminated(@, sh.worker), !.worker = null]

\* this.worker.postMessage({ command: INIT, ..., rawSab: this.config.rawSab,
\* denoisedSab: this.config.denoisedSab }) of sendAssetsToWorker(), called by
\* manager m to answer worker w: the message goes to WorkerManager.worker as
\* it is now (a TypeError if it is null).
PostedInit(sh, m, w) ==
  [sh EXCEPT
     !.assets = TRUE,
     !.workers = IF sh.worker = null THEN @
                   ELSE [@ EXCEPT ![sh.worker].inbox = Append(@, m)],
     !.sent = Append(@, [to |-> sh.worker, requester |-> w, manager |-> m])]

\* initialize() of processor m: returns if initialised; awaits
\* getSharedAssets(), which returns the cached assets if there are any.
DeepFilterNet3Processor_initialize ==
  \E m \in Managers :
    /\ ~main.shared.isInitialized[m] /\ main.shared.pc[m] = "idle"
    /\ Len(main.shared.workers) < MaxWorkers
    /\ main' = [main EXCEPT
                  !.shared =
                     IF @.assets
                       THEN [CreatedWorker(@, m) EXCEPT !.isInitialized[m] = TRUE]
                       ELSE [@ EXCEPT !.pc[m] = "getSharedAssets"]]
    /\ UNCHANGED << apart, worker, inbox, inline >>

\* initialize(): the assets are fetched; createWorkerFromBlob();
\* isInitialized = true.
DeepFilterNet3Processor_initialize_Fetched ==
  \E m \in Managers :
    /\ main.shared.pc[m] = "getSharedAssets"
    /\ Len(main.shared.workers) < MaxWorkers
    /\ main' = [main EXCEPT
                  !.shared = [CreatedWorker([@ EXCEPT !.assets = TRUE], m)
                                EXCEPT !.isInitialized[m] = TRUE,
                                       !.pc[m] = "idle"]]
    /\ UNCHANGED << apart, worker, inbox, inline >>

\* createWorkerFromBlob() of manager m, called by a host on its own.
WorkerManager_createWorkerFromBlob ==
  \E m \in Managers :
    /\ Len(main.shared.workers) < MaxWorkers
    /\ main' = [main EXCEPT !.shared = CreatedWorker(@, m)]
    /\ UNCHANGED << apart, worker, inbox, inline >>

\* WorkerManager.clearSharedWorker(), called by a host on its own.
WorkerManager_clearSharedWorker ==
  /\ main.shared.worker # null
  /\ main' = [main EXCEPT !.shared = ClearedSharedWorker(@)]
  /\ UNCHANGED << apart, worker, inbox, inline >>

\* destroy() of processor m: returns if not initialised; else
\* clearSharedWorker(), cleanupAssets(), isInitialized = false.
DeepFilterNet3Processor_destroy ==
  \E m \in Managers :
    /\ main.shared.isInitialized[m]
    /\ main' = [main EXCEPT
                  !.shared = [ClearedSharedWorker(@) EXCEPT
                                !.assets = FALSE,
                                !.isInitialized[m] = FALSE]]
    /\ UNCHANGED << apart, worker, inbox, inline >>

\* The worker's script has run: its last statement posts FETCH_WASM.
DeepFilterWorker_FETCH_WASM ==
  \E w \in DOMAIN main.shared.workers :
    /\ ~main.shared.workers[w].terminated
    /\ main.shared.workers[w].state = "loading"
    /\ main' = [main EXCEPT !.shared.workers[w].state = "asked"]
    /\ UNCHANGED << apart, worker, inbox, inline >>

\* handleWorkerMessage of the worker's creator, FETCH_WASM:
\* sendAssetsToWorker() returns if WorkerManager.worker is null, then awaits
\* getSharedAssets(); with the assets cached it posts INIT at once.
WorkerManager_handleWorkerMessage ==
  \E w \in DOMAIN main.shared.workers :
    /\ ~main.shared.workers[w].terminated
    /\ main.shared.workers[w].state = "asked"
    /\ LET m == main.shared.workers[w].creator
           handled == [main.shared EXCEPT !.workers[w].state = "waiting"]
       IN  main' = [main EXCEPT
                      !.shared =
                         IF handled.worker = null THEN handled
                         ELSE IF handled.assets THEN PostedInit(handled, m, w)
                         ELSE [handled EXCEPT
                                 !.pending = @ \cup { [manager |-> m,
                                                       requester |-> w] }]]
    /\ UNCHANGED << apart, worker, inbox, inline >>

\* sendAssetsToWorker(): getSharedAssets() has fetched the assets, and INIT
\* is posted to WorkerManager.worker.
WorkerManager_sendAssetsToWorker ==
  \E call \in main.shared.pending :
    /\ main' = [main EXCEPT
                  !.shared = PostedInit([@ EXCEPT !.pending = @ \ { call }],
                                        call.manager, call.requester)]
    /\ UNCHANGED << apart, worker, inbox, inline >>

\* onmessage of a worker, INIT: the two channels of the message are
\* attached; the model is set up and SETUP_AWP posted, or the setup throws
\* and ERROR is posted.
DeepFilterWorker_INIT ==
  \E w \in DOMAIN main.shared.workers :
    /\ ~main.shared.workers[w].terminated
    /\ main.shared.workers[w].inbox # << >>
    /\ \E outcome \in { "ready", "error" } :
         main' = [main EXCEPT
                    !.shared.workers[w] =
                       [@ EXCEPT !.inbox = Tail(@),
                                 !.attached = Head(main.shared.workers[w].inbox),
                                 !.state = outcome]]
    /\ UNCHANGED << apart, worker, inbox, inline >>

\* WorkerManager.isWorkerReady()
isWorkerReady == main.shared.worker # null

\* isReady() of processor m
isReady(m) == main.shared.isInitialized[m] /\ isWorkerReady

\* A page that has loaded the module: no worker, no assets.
InitManager ==
  /\ NothingElse
  /\ inbox = << >>
  /\ main = NoMain
  /\ worker = NoWorker
  /\ inline = NoInline

NextManager ==
  \/ DeepFilterNet3Processor_initialize
  \/ DeepFilterNet3Processor_initialize_Fetched
  \/ WorkerManager_createWorkerFromBlob
  \/ WorkerManager_clearSharedWorker
  \/ DeepFilterNet3Processor_destroy
  \/ DeepFilterWorker_FETCH_WASM
  \/ WorkerManager_handleWorkerMessage
  \/ WorkerManager_sendAssetsToWorker
  \/ DeepFilterWorker_INIT

ManagerSpec == InitManager /\ [][NextManager]_vars

\* ------------------------------------------------------- what is checked

\* A side is inside a call of push or pop with both indices loaded.
Planned(side) == side.pc \in {"copy", "store"}

\* The storage slots a planned push or pop touches.
Span(side, ptr) == { SlotOf(ptr, side.count, j) : j \in 0 .. side.count - 1 }

\* The slots a planned push or pop has not touched yet.
Pending(side, ptr) ==
  { SlotOf(ptr, side.count, j) : j \in side.k .. side.count - 1 }

\* The slots that hold queued elements according to indices rd and wr: the
\* half-open range [rd, wr) taken around the end of the storage.
Occupied(rd, wr) ==
  { (rd + j) % storageCapacity :
      j \in 0 .. ((wr - rd + storageCapacity) % storageCapacity) - 1 }

\* The number of elements queued according to indices rd and wr.
Queued(rd, wr) == Cardinality(Occupied(rd, wr))

\* Sequence s is a prefix of sequence t.
IsPrefix(s, t) ==
  /\ Len(s) <= Len(t)
  /\ \A i \in 1 .. Len(s) : s[i] = t[i]

\* C1: at every point of every interleaving of the producer's push calls and
\* the consumer's pop calls, the elements returned by pop so far, in order,
\* are a prefix of the elements accepted by push so far, in order: nothing is
\* duplicated, skipped or reordered.  (The accepted elements are the distinct
\* samples 1, 2, 3, ...)
C1_DequeuedIsPrefixOfEnqueued ==
  /\ IsPrefix(popped, pushed)
  /\ \A i \in 1 .. Len(pushed) : pushed[i] = i

\* C1 witness: a pop has returned elements after the indices wrapped, while
\* the producer is in the middle of copying a later push.
C1_Witness ==
  /\ cons.pc = "return" /\ cons.op = "pop" /\ cons.ret > 0
  /\ Len(popped) > capacity
  /\ prod.pc = "copy" /\ prod.k > 0

\* C2: whenever the consumer is about to read a slot in pop, that slot lies in
\* the published range [readIndex, writeIndex), is not one the producer is
\* still to write or has written without publishing, and holds the element
\* that was accepted for that position.
C2_PopReadsOnlyPublishedSlots ==
  cons.pc = "copy" =>
    LET s == SlotOf(cons.rd, cons.count, cons.k)
        i == Len(popped) + cons.k + 1
    IN  /\ s \in Occupied(read_ptr, write_ptr)
        /\ s \in Occupied(cons.rd, cons.wr)
        /\ Planned(prod) => s \notin Span(prod, prod.wr)
        /\ i <= Len(pushed)
        /\ i <= Len(pushed) => storage[s] = pushed[i]

\* C2 witness: the consumer is about to read a slot while the producer is in
\* the middle of its copy loop, one slot written and not yet published.
C2_Witness ==
  /\ cons.pc = "copy"
  /\ prod.pc = "copy" /\ prod.k > 0

\* C3: whenever the producer is about to write a slot in push, that slot is a
\* slot of the storage, is free according to the published indices, and is not
\* one the consumer is still to copy out; the slots of the call are a span up
\* to the end of the storage followed by a span from slot 0.
C3_PushWritesOnlyFreeSlots ==
  prod.pc = "copy" =>
    LET s     == SlotOf(prod.wr, prod.count, prod.k)
        first == FirstPart(prod.wr, prod.count)
    IN  /\ s \in 0 .. storageCapacity - 1
        /\ s \notin Occupied(read_ptr, write_ptr)
        /\ Planned(cons) => s \notin Pending(cons, cons.rd)
        /\ first >= 0 /\ first <= prod.count
        /\ prod.wr + first <= storageCapacity
        /\ Span(prod, prod.wr) =
             (prod.wr .. prod.wr + first - 1) \cup (0 .. prod.count - first - 1)
        /\ Cardinality(Span(prod, prod.wr)) = prod.count

\* C3 witness: the producer is about to write the wrapped head span, after a
\* tail span, while the consumer is inside its copy loop.
C3_Witness ==
  /\ prod.pc = "copy" /\ prod.k >= FirstPart(prod.wr, prod.count)
  /\ FirstPart(prod.wr, prod.count) > 0
  /\ cons.pc = "copy"

\* C4: a pop (or dequeue) that asks for at most what the consumer's preceding
\* availableRead() reported returns exactly what it asked for, and a push of
\* at most what the producer's preceding availableWrite() reported is written
\* in full, whatever the other side did in between.
C4_OccupancyIsSafeForOwner ==
  /\ ( /\ cons.pc = "return" /\ cons.op \in PopOps
       /\ cons.promise # undefined /\ LenArg(cons) <= cons.promise )
     => cons.ret = LenArg(cons)
  /\ ( /\ prod.pc = "return" /\ prod.op = "push"
       /\ prod.promise # undefined /\ LenArg(prod) <= prod.promise )
     => prod.ret = LenArg(prod)

\* C4 witness: a pop has returned all of the promised count although the
\* producer published more in between, while a promised push has been written
\* in full.
C4_Witness ==
  /\ cons.pc = "return" /\ cons.op = "pop"
  /\ cons.promise > 0 /\ LenArg(cons) = cons.promise /\ cons.ret = cons.promise
  /\ Queued(cons.rd, write_ptr) > cons.promise
  /\ prod.pc = "return" /\ prod.op = "push"
  /\ prod.promise > 0 /\ LenArg(prod) = prod.promise /\ prod.ret = prod.promise

\* C5: in a sequential run, when a push of N <= capacity() elements into an
\* empty buffer is followed by a pop of N (no other call moving data in
\* between), both calls return N and the destination holds the N pushed
\* elements in their order, the rest of it untouched.
C5_PushThenPopRoundTrip ==
  ( /\ Len(log) = 1 /\ log[1].op = "push" /\ log[1].rd0 = log[1].wr0
    /\ log[1].len <= capacity
    /\ cons.pc = "return" /\ cons.op = "pop" /\ LenArg(cons) = log[1].len )
  => /\ log[1].ret = log[1].len
     /\ cons.ret = log[1].len
     /\ Returned(cons) = log[1].data
     /\ Intact(cons.dst, cons.offset, cons.ret)

\* C5 witness: such a push and pop, the pushed elements lying across the end
\* of the storage array.
C5_Witness ==
  /\ Len(log) = 1 /\ log[1].op = "push" /\ log[1].rd0 = log[1].wr0
  /\ log[1].len <= capacity /\ log[1].len > 1
  /\ log[1].wr0 + log[1].len > storageCapacity
  /\ cons.pc = "return" /\ cons.op = "pop" /\ LenArg(cons) = log[1].len
  /\ cons.ret = log[1].len

\* The log holds a push that offered more than capacity() elements to an
\* empty buffer, followed by `more` calls that moved data.
Overfilled(more) ==
  /\ Len(log) = 1 + more
  /\ log[1].op = "push" /\ log[1].rd0 = log[1].wr0 /\ log[1].len > capacity

\* C6: in a sequential run, a push offering more than capacity() elements to
\* an empty buffer returns capacity() and leaves availableWrite() = 0 and
\* full() true; a further push before any pop returns 0; a following pop of
\* capacity() returns the first capacity() offered elements in order; and a
\* further pop returns 0.
C6_OverfullPushIsClamped ==
  /\ ( /\ prod.pc = "return" /\ prod.op = "push" /\ prod.rd = prod.wr
       /\ LenArg(prod) > capacity )
     => /\ prod.ret = capacity
        /\ availableWriteInternal(read_ptr, write_ptr) = 0
        /\ IsFull(read_ptr, write_ptr)
        /\ Queued(read_ptr, write_ptr) = capacity
  /\ (Overfilled(0) /\ prod.pc = "return" /\ prod.op = "push")
     => prod.ret = 0
  /\ ( /\ Overfilled(0) /\ cons.pc = "return" /\ cons.op = "pop"
       /\ LenArg(cons) = capacity )
     => /\ cons.ret = capacity
        /\ Returned(cons) = SubSeq(log[1].data, 1, capacity)
  /\ ( /\ Overfilled(1) /\ log[2].op = "pop" /\ log[2].len = capacity
       /\ cons.pc = "return" /\ cons.op \in PopOps )
     => cons.ret = 0

\* C6 witness: after the over-long push and the pop of capacity(), a further
\* pop has returned 0, and a further push is under way on the empty buffer.
C6_Witness ==
  /\ Overfilled(1) /\ log[2].op = "pop" /\ log[2].len = capacity
  /\ log[1].ret = capacity /\ log[2].data = SubSeq(log[1].data, 1, capacity)
  /\ log[1].wr0 > 0
  /\ cons.pc = "return" /\ cons.op = "pop" /\ LenArg(cons) > 0 /\ cons.ret = 0

\* C7: every step the producer takes in a push that loaded the indices of a
\* full buffer leaves the write index, the read index and every storage slot
\* as they were, and the call returns 0 (no other value, no error) as soon
\* as both indices are loaded.
C7_PushOnFullChangesNothing ==
  [][ ( /\ prod' # prod /\ prod'.op = "push"
        /\ prod'.pc \in {"copy", "store", "return"}
        /\ Queued(prod'.rd, prod'.wr) = capacity )
      => /\ write_ptr' = write_ptr /\ read_ptr' = read_ptr /\ storage' = storage
         /\ prod'.pc = "return" /\ prod'.ret = 0 ]_vars

\* C7 witness: a push has returned from a full buffer whose storage holds
\* elements not yet popped, while the consumer is inside a pop.
C7_Witness ==
  /\ prod.pc = "return" /\ prod.op = "push" /\ LenArg(prod) > 0
  /\ Queued(prod.rd, prod.wr) = capacity /\ prod.ret = 0
  /\ cons.pc = "copy"

\* C8: every step the consumer takes in a pop or dequeue that loaded the
\* indices of an empty buffer leaves every element of the destination array,
\* the read index and the write index as they were, and the call returns 0.
C8_PopOnEmptyChangesNothing ==
  [][ ( /\ cons' # cons /\ cons'.op \in PopOps
        /\ cons'.pc \in {"copy", "store", "return"}
        /\ cons'.rd = cons'.wr )
      => /\ cons'.dst = Destination(cons'.n)
         /\ read_ptr' = read_ptr /\ write_ptr' = write_ptr /\ storage' = storage
         /\ cons'.pc = "return" /\ cons'.ret = 0 ]_vars

\* C8 witness: a pop into a non-empty destination array has returned 0 from
\* an empty buffer that had been used before, while the producer is inside a
\* push.
C8_Witness ==
  /\ cons.pc = "return" /\ cons.op = "pop" /\ cons.n > 0 /\ cons.ret = 0
  /\ cons.rd = cons.wr /\ cons.rd > 0
  /\ cons.dst = Destination(cons.n)
  /\ prod.pc = "copy"

\* The operations that only inspect the buffer.
Introspection == QueryOps \cup {"capacity"}

\* C9: no step of the producer (push, enqueue, its introspection calls)
\* changes the read index; no step of the consumer (pop, dequeue, its
\* introspection calls) changes the write index; and no step of an
\* introspection call, nor of the empty() inside dequeue, changes an index or
\* a storage slot.
C9_IndexOwnership ==
  [][ /\ prod' # prod => read_ptr' = read_ptr
      /\ cons' # cons => write_ptr' = write_ptr
      /\ (prod' # prod /\ prod'.op \in Introspection) => UNCHANGED shared
      /\ (cons' # cons /\ cons'.op \in Introspection \cup {"dequeue"})
           => UNCHANGED shared ]_vars

\* C9 witness: a pop has moved the read index and a push the write index, and
\* an introspection call of each side has returned.
C9_Witness ==
  /\ read_ptr > 0 /\ write_ptr > 0 /\ read_ptr # write_ptr
  /\ prod.pc = "return" /\ prod.op = "full"
  /\ cons.pc = "return" /\ cons.op = "availableRead"

\* The steps a side has left in its call at most: the loads, one assignment
\* per element still to copy, the store.
StepsLeft(side) ==
  CASE side.pc \in {"loadRd", "emptyLoadRd"} -> 3 + LenArg(side)
    [] side.pc \in {"loadWr", "emptyLoadWr"} -> 2 + LenArg(side)
    [] side.pc = "copy"                      -> 1 + (side.count - side.k)
    [] side.pc = "store"                     -> 1
    [] OTHER                                 -> 0

\* C10: a push or pop call takes at most the requested length plus 3 steps,
\* and at every point inside a call the side's next step can be taken at once,
\* whatever state the other side is in: no step waits for the other side.
C10_WaitFree ==
  /\ prod.steps <= LenArg(prod) + 3
  /\ cons.steps <= LenArg(cons) + 3
  /\ prod.steps + StepsLeft(prod) <= LenArg(prod) + 3
  /\ cons.steps + StepsLeft(cons) <= LenArg(cons) + 3
  /\ prod.pc \notin {"idle", "return"} => ENABLED ProducerStep
  /\ cons.pc \notin {"idle", "return"} => ENABLED ConsumerStep

\* C10 witness: a push of two or more elements has returned after exactly its
\* length plus 3 steps while the consumer stood still inside a pop, between
\* its two loads.
C10_Witness ==
  /\ prod.pc = "return" /\ prod.op = "push" /\ prod.count > 1
  /\ prod.steps = LenArg(prod) + 3
  /\ cons.pc = "loadWr" /\ cons.op = "pop" /\ cons.rd = prod.rd

\* C11: a construction that was asked for a capacity of 0 or less fails (it
\* does not end with a RingBuffer object), and a construction that was asked
\* for a capacity C > 0 ends with an object of C + 1 storage slots whose
\* capacity() is C.
C11_ConstructionRejectsNonPositiveCapacity ==
  /\ build.requested <= 0 => build.pc # "constructed"
  /\ (build.requested > 0 /\ build.pc \notin {"requested", "allocated"})
       => /\ build.pc = "constructed"
          /\ build.slots = build.requested + 1
          /\ build._capacity - 1 = build.requested

\* ---- the real-time tick

\* process() has returned from a call.
TickReturned == worklet.pc = "done"

\* The call that has returned found less than a quantum in the denoised channel.
UnderrunTick ==
  /\ TickReturned
  /\ worklet.available # undefined
  /\ Underrun(worklet.available)

\* Every output channel holds the input quantum of the call.
PassedThrough ==
  \A c \in 1 .. worklet.channelCount : worklet.output[c] = worklet.input

\* C12: when a tick with the pipeline ready and noise suppression active
\* finds less than a quantum of denoised samples, every output channel has
\* been written with the input quantum of that tick when the tick returns.
C12_UnderrunTickPassesInputThrough ==
  (UnderrunTick /\ worklet.ready /\ ~worklet.bypass /\ ~worker.bypass)
    => PassedThrough

\* C13: a tick that returns while the ready promise is not yet resolved (the
\* INIT not handled, under way or failed, or its SETUP_AWP not yet received),
\* with bypass off, has written the input quantum of that tick to every
\* output channel, and so has output no sample taken from a channel.
C13_NotReadyTickPassesInputThrough ==
  (TickReturned /\ ~main.ready /\ ~worklet.bypass /\ ~worker.bypass)
    => PassedThrough

\* C14: a tick that begins and returns with the worker's bypass flag set (a
\* SET_BYPASS with bypass on was handled and none with bypass off since) has
\* written exactly the input quantum of that tick to every output channel.
C14_BypassTickOutputsItsInput ==
  (TickReturned /\ worklet.bypass /\ worker.bypass) => PassedThrough

\* A tick under bypass that has output a quantum drained from the denoised
\* channel: samples of an earlier tick, not of this one.
C14_DelayedUnderBypass ==
  /\ TickReturned /\ worklet.bypass /\ worker.bypass
  /\ worklet.samples_read = Quantum
  /\ ~PassedThrough

\* The call that has returned found at least a quantum in the denoised channel.
DrainTick ==
  /\ TickReturned
  /\ worklet.available # undefined
  /\ ~Underrun(worklet.available)

\* C15: a tick that finds at least a quantum in the denoised channel removes
\* exactly one quantum from it (the read index has advanced by one quantum
\* from where it was when the tick began, whatever the number of output
\* channels), and every output channel holds that quantum in order: the
\* oldest samples the channel accepted and had not yet given out.
C15_TickDrainsOneQuantumOnce ==
  DrainTick =>
    /\ worklet.samples_read = Quantum
    /\ denoised.read_ptr = Advance(worklet.before, Quantum)
    /\ Len(hist.drained) = worklet.had + Quantum
    /\ Len(hist.produced) >= worklet.had + Quantum
    /\ \A c \in 1 .. worklet.channelCount : \A i \in 0 .. Quantum - 1 :
         worklet.output[c][i] = hist.produced[worklet.had + i + 1]

\* Such a tick has happened with the pipeline ready, bypass off and two
\* output channels, the quantum lying across the end of the storage.
C15_Witness ==
  /\ DrainTick
  /\ worklet.ready /\ ~worklet.bypass /\ ~worker.bypass
  /\ worklet.channelCount = 2
  /\ worklet.samples_read = Quantum
  /\ denoised.read_ptr < worklet.before

\* The samples a RingBuffer holds, oldest first.
Queue(ring) ==
  [k \in 1 .. availableReadInternal(ring.read_ptr, ring.write_ptr) |->
     ring.storage[Advance(ring.read_ptr, k - 1)]]

\* The samples of sequence s after its first n.
After(s, n) == SubSeq(s, n + 1, Len(s))

\* The call under way, or the call that has returned, is past its enqueue.
Enqueued == worklet.accepted # undefined

\* C16: a tick whose enqueue finds f free slots in the raw channel, f less
\* than a quantum, enqueues the first f samples of its input and no more (the
\* rest of the quantum is nowhere in the channel); the channel holds, in
\* order, exactly the samples it accepted and has not yet given to the
\* worker, so what was queued is untouched; and the tick goes on: every step
\* of it can be taken whatever the worker does, and it returns true.
C16_OverflowDropsNewestSamples ==
  /\ Queue(raw) = After(hist.enqueued, Len(hist.framed))
  /\ (Enqueued /\ worklet.free < Quantum) =>
       /\ worklet.accepted = worklet.free
       /\ After(hist.enqueued, Len(hist.enqueued) - worklet.accepted)
            = Slice(worklet.input, 0, worklet.free)
       /\ \A j \in worklet.free .. Quantum - 1 :
            \A k \in 1 .. Len(hist.enqueued) : hist.enqueued[k] # worklet.input[j]
  /\ worklet.pc \notin {"none", "idle", "done"} => ENABLED process
  /\ (TickReturned /\ worklet.free < Quantum) => worklet.ret

\* A tick has returned true whose enqueue found one free slot, with samples
\* queued, and took one sample.
C16_Witness ==
  /\ TickReturned /\ worklet.ret
  /\ worklet.free = 1 /\ worklet.accepted = 1
  /\ Len(Queue(raw)) > 1

\* C17: every process() call that has returned has returned true, whatever
\* the worker did meanwhile; and a call that found less than a quantum in the
\* denoised channel has removed nothing from it (the read index is where it
\* was when the call began, and no sample was drained).
C17_UnderrunIsNotFatal ==
  /\ TickReturned => worklet.ret
  /\ UnderrunTick =>
       /\ denoised.read_ptr = worklet.before
       /\ Len(hist.drained) = worklet.had
       /\ worklet.samples_read = undefined

\* A tick has returned from an underrun with part of a quantum in the
\* denoised channel, the worker being in the middle of a frame.
C17_Witness ==
  /\ UnderrunTick /\ worklet.ret
  /\ worklet.available > 0
  /\ worker.pc # "idle"

\* ---- the background loop

\* readFromQueue() is inside its dequeue.
Dequeuing ==
  worker.pc \in {"dequeueEmpty", "dequeuePop", "dequeueStore"}

\* C18: the worker is inside a dequeue from the raw channel only after
\* availableRead() returned at least frame_length; the dequeue plans, and
\* every dequeue so far has returned, exactly frame_length samples, so the
\* samples dequeued so far are whole frames; whatever the worklet, which
\* enqueues meanwhile, does.
C18_WorkerDequeuesWholeFrames ==
  /\ Dequeuing => worker.available >= worker.frame_length
  /\ worker.pc = "dequeueStore" => worker.count = worker.frame_length
  /\ worker.samples_read # undefined => worker.samples_read = worker.frame_length
  /\ worker.init = "ok" => Len(hist.framed) % worker.frame_length = 0

\* The worker has dequeued a frame, its second, while the worklet is in the
\* middle of an enqueue.
C18_Witness ==
  /\ worker.pc = "processFrame"
  /\ worker.samples_read = worker.frame_length
  /\ Len(hist.framed) = 2 * worker.frame_length
  /\ worklet.pc = "enqueueStore"

\* ---- end to end

\* The raw sample a sample of the denoised channel was made of (bypassed or
\* processed by df_process_frame).
Origin(x) == x % 100

\* C19: the k-th sample drained from the denoised channel is made of the
\* k-th sample the raw channel accepted, for every k (so the drained samples
\* come in the order of enqueueing, none of them twice).
C19_DrainedMatchEnqueuedPositionByPosition ==
  /\ Len(hist.drained) <= Len(hist.enqueued)
  /\ \A k \in 1 .. Len(hist.drained) : Origin(hist.drained[k]) = hist.enqueued[k]

\* What holds of the order end to end: the drained samples are made of raw samples in
\* the order the raw channel accepted them, an earlier one never after a
\* later one and none twice, each made of a sample that was enqueued; and
\* they match the enqueued samples position by position up to the first
\* frame for which the denoised channel had no room.
C19_DrainedInEnqueueOrder ==
  /\ \A k \in 1 .. Len(hist.drained) :
       \E j \in 1 .. Len(hist.enqueued) : Origin(hist.drained[k]) = hist.enqueued[j]
  /\ \A k \in 1 .. Len(hist.drained) - 1 :
       Origin(hist.drained[k]) < Origin(hist.drained[k + 1])
  /\ \A k \in 1 .. Len(hist.enqueued) - 1 : hist.enqueued[k] < hist.enqueued[k + 1]
  /\ Len(hist.produced) = Len(hist.framed) =>
       \A k \in 1 .. Len(hist.drained) : Origin(hist.drained[k]) = hist.enqueued[k]

\* ---- the readiness handshake

\* The worker has posted message m.
Posted(m) == \E k \in 1 .. Len(worker.posted) : worker.posted[k] = m

\* The INIT handler ended in its catch block.
InitFailed == worker.init \in {"initSync", "df_create", "df_get_frame_length"}

\* C20: the worker has posted SETUP_AWP only if its INIT handler got through
\* initSync, df_create and df_get_frame_length and set the interval of the
\* polling loop (which only a STOP has cleared since); and if one of them
\* threw, the worker has posted ERROR and no SETUP_AWP, no interval is set,
\* readFromQueue() has never taken a frame, and the ready promise is not
\* resolved.  The ready promise is resolved only by a SETUP_AWP.
C20_ReadyOnlyAfterSuccessfulInit ==
  /\ Posted("SETUP_AWP") =>
       /\ worker.init = "ok"
       /\ worker.df_model = Handle
       /\ worker.frame_length = FrameLength
       /\ \/ worker.interval # null /\ worker.timers = 1
          \/ main.stopped /\ worker.interval = null /\ worker.timers = 0
  /\ InitFailed =>
       /\ worker.posted = << "FETCH_WASM", "ERROR" >>
       /\ worker.interval = null /\ worker.timers = 0
       /\ worker.pc = "idle" /\ hist.framed = << >>
       /\ ~main.ready
  /\ main.ready => Posted("SETUP_AWP")

\* df_create threw, the main thread has received the ERROR, and ticks go on.
C20_Witness ==
  /\ worker.init = "df_create"
  /\ Posted("ERROR") /\ events = << >>
  /\ worklet.tick > 1

\* ---- failures

\* C21: once the worker's ERROR has reached the main thread, no
\* createAudioWorkletNode() call is left suspended in waitForWorkerReady():
\* the call has been settled.
C21_FailureSettlesTheCaller ==
  (InitFailed /\ Posted("ERROR") /\ events = << >>) => ~main.awaiting

\* The worker has handled STOP, and no INIT that started a loop since.
Stopped == worker.stopFramed # undefined

\* C22: once the worker has handled STOP, whatever commands it handled
\* before (an INIT more than once among them), readFromQueue() takes no
\* further frame from the raw channel and writes none to the denoised
\* channel: the worker is between two tasks and the samples dequeued are
\* those dequeued when STOP was handled.
C22_NoFrameAfterStop ==
  Stopped => /\ Len(hist.framed) = worker.stopFramed
             /\ worker.pc = "idle"

\* The transform has failed on a frame.
TransformFailed == worker.failFramed # undefined

\* C23: once df_process_frame has thrown on a frame, readFromQueue() takes no
\* further frame from the raw channel (and so calls the transform no more):
\* the samples dequeued are those dequeued when it threw.
C23_TransformFailureStopsTheLoop ==
  TransformFailed => Len(hist.framed) = worker.failFramed

\* ---- the adaptive suppression level

\* A frame has been analysed.
Analysed == inline.analysis # NoAnalysis

\* clamp(x, lo, hi)
Clamp(x, lo, hi) == MathMax(lo, MathMin(hi, x))

\* The decision table of the adaptive controller, row by row.
DecisionTable(a) ==
  IF Less(a.rms, Rat(1, 1000))
    THEN Num(85)
  ELSE IF /\ Less(Rat(1, 100), a.rms)
          /\ Less(Rat(5, 100), a.avgZCR) /\ Less(a.avgZCR, Rat(35, 100))
    THEN Clamp(Minus(Minus(Num(60),
                           Times(Num(20), MathMin(Num(1), Over(a.rms, Rat(1, 10))))),
                     Times(Num(10), a.normalizedCentroid)),
               Num(30), Num(60))
  ELSE IF Less(Rat(1, 100), a.rms) /\ AtMost(Rat(35, 100), a.avgZCR)
    THEN Num(45)
  ELSE IF AtMost(Rat(1, 1000), a.rms) /\ AtMost(a.rms, Rat(1, 100))
    THEN Minus(Num(70), Times(Num(20), Over(a.avgEnergy, Rat(1, 100))))
  ELSE a.manual

\* C26: for every rms, avgZCR, normalizedCentroid and avgEnergy, values on the
\* thresholds among them, the unsmoothed target of the frame is the one the
\* decision table gives.
C26_TargetFollowsDecisionTable ==
  Analysed =>
    inline.analysis.targetLevel = Lowest(DecisionTable(inline.analysis))

\* The frame analysed counts as active speech.
ActiveSpeech(a) ==
  /\ Less(Rat(1, 100), a.rms)
  /\ Less(Rat(5, 100), a.avgZCR) /\ Less(a.avgZCR, Rat(35, 100))

\* C27: the unsmoothed target of a frame of active speech lies in [30,60],
\* whatever its rms above the threshold and its normalised centroid in [0,1].
C27_SpeechTargetWithin30And60 ==
  (Analysed /\ ActiveSpeech(inline.analysis)) =>
    /\ AtMost(Num(30), inline.analysis.targetLevel)
    /\ AtMost(inline.analysis.targetLevel, Num(60))

\* A frame with rms 0.05 and avgZCR 0.2 has got a target strictly inside the
\* range.
C27_Witness ==
  /\ Analysed /\ ActiveSpeech(inline.analysis)
  /\ inline.analysis.rms = Rat(1, 20) /\ inline.analysis.avgZCR = Rat(2, 10)
  /\ Less(Num(30), inline.analysis.targetLevel)
  /\ Less(inline.analysis.targetLevel, Num(60))

\* ---- the suppression level

\* The request is one that reached a model, and the level the model got for
\* it is the level asked for, floored and clamped to [0,100]: an integer
\* from 0 to 100.
ClampedAndFloored(request) ==
  request # NoRequest =>
    /\ request.applied = Clamp(MathFloor(request.asked), Num(0), Num(100))
    /\ IsInteger(request.applied)
    /\ AtMost(Num(0), request.applied) /\ AtMost(request.applied, Num(100))

\* C24: whatever number setSuppressionLevel() is called with, below 0 and
\* above 100 included, the level the model gets for the request (in the
\* worklet and in the worker) is that number floored and clamped to [0,100],
\* an integer from 0 to 100.
C24_ManualLevelIsClampedAndFloored ==
  /\ ClampedAndFloored(inline.request)
  /\ ClampedAndFloored(worker.request)

\* A request for 26.7 has reached the worker's model as 26.
C24_Witness ==
  worker.request = [asked |-> Rat(267, 10), applied |-> Num(26)]

C30_ModelHoldsCurrentLevel ==
  /\ inline.isInitialized => inline.atten_lim = inline.currentSuppressionLevel
  /\ Analysed =>
       LET a == inline.analysis
       IN  /\ a.set => AtMost(Num(1), MathAbs(Minus(a.newLevel, a.current)))
           /\ a.newLevel = a.current => ~a.set

\* A frame has yielded the level already in force, and the model was not
\* called.
C30_Witness ==
  /\ Analysed
  /\ inline.analysis.newLevel = inline.analysis.current
  /\ ~inline.analysis.set
  /\ inline.atten_lim = inline.currentSuppressionLevel

\* lo <= level <= hi
Within(level, lo, hi) == AtMost(Num(lo), level) /\ AtMost(level, Num(hi))

\* The applied level is one of heavy suppression.
AppliedWithin80And95 ==
  \E level \in { inline.currentSuppressionLevel } : Within(level, 80, 95)

\* The applied level is one of moderate suppression.
AppliedWithin30And60 ==
  \E level \in { inline.currentSuppressionLevel } : Within(level, 30, 60)

\* C28: during an unbroken run of silent frames, from whatever level in
\* [0,100] the run starts, the applied level eventually enters [80,95] and
\* stays there.
C28_SilenceSettlesWithin80And95 ==
  <>[]AppliedWithin80And95

\* C29: during an unbroken run of frames of active speech, from whatever
\* level in [0,100] the run starts, the applied level eventually enters
\* [30,60] and stays there.
C29_SpeechSettlesWithin30And60 ==
  <>[]AppliedWithin30And60

\* A SET_SUPPRESSION_LEVEL message is taken from the port by this step.
Handled_SET_SUPPRESSION_LEVEL ==
  /\ inline.isInitialized
  /\ inline.port # << >>
  /\ Head(inline.port).type = "SET_SUPPRESSION_LEVEL"
  /\ inline'.port = Tail(inline.port)

\* The level the last request handled asked for, floored and clamped.
RequestedManualLevel(worklet_) ==
  Clamp(MathFloor(worklet_.asked), Num(0), Num(100))

\* C31: a SET_SUPPRESSION_LEVEL message handled while dynamic suppression is
\* on changes the remembered manual level and leaves the applied level and the
\* model's attenuation limit as they are; and when dynamic suppression is off
\* after a step, the applied level and the attenuation limit are the level of
\* the last request handled, whatever the controller applied in between.
C31_ManualLevelWaitsForDynamicOff ==
  [][ /\ (Handled_SET_SUPPRESSION_LEVEL /\ inline.dynamicSuppressionEnabled) =>
           /\ inline'.manualSuppressionLevel = RequestedManualLevel(inline')
           /\ inline'.currentSuppressionLevel = inline.currentSuppressionLevel
           /\ inline'.atten_lim = inline.atten_lim
           /\ inline'.dynamicSuppressionEnabled
      /\ (/\ inline'.isInitialized /\ ~inline'.dynamicSuppressionEnabled
          /\ inline'.asked # NoLevel) =>
           /\ inline'.currentSuppressionLevel = RequestedManualLevel(inline')
           /\ inline'.atten_lim = RequestedManualLevel(inline') ]_vars

\* A request for 26.7 was handled while dynamic suppression was on, a frame
\* made the controller apply a level of its own, and dynamic suppression has
\* been switched off: the level 26 is applied and held by the model.
C31_Witness ==
  /\ inline.deferred /\ inline.adapted
  /\ ~inline.dynamicSuppressionEnabled
  /\ inline.asked = Rat(267, 10)
  /\ inline.currentSuppressionLevel = Num(26)
  /\ inline.atten_lim = Num(26)

\* ---- the indices and the occupancy figures

\* What availableRead(), availableWrite(), empty() and full() return from
\* the indices as they stand add up: the two counts lie in [0, capacity()]
\* and sum to capacity(), empty() is availableRead() = 0 and full() is
\* availableWrite() = 0.
FiguresAgree ==
  LET read == availableReadInternal(read_ptr, write_ptr)
      write == availableWriteInternal(read_ptr, write_ptr)
  IN  /\ read_ptr \in 0 .. storageCapacity - 1
      /\ write_ptr \in 0 .. storageCapacity - 1
      /\ read \in 0 .. capacity
      /\ write \in 0 .. capacity
      /\ read + write = capacity
      /\ IsEmpty(read_ptr, write_ptr) <=> read = 0
      /\ IsFull(read_ptr, write_ptr) <=> write = 0

\* C32: in every reachable state of a RingBuffer with N = capacity() + 1
\* slots both indices lie in [0, N), availableRead() + availableWrite() =
\* capacity() with both in [0, capacity()], empty() is availableRead() = 0,
\* full() is availableWrite() = 0, and empty() and full() are never both true.
C32_IndicesAndFiguresAgree ==
  /\ FiguresAgree
  /\ ~(IsEmpty(read_ptr, write_ptr) /\ IsFull(read_ptr, write_ptr))

\* ---- the processed frames

\* C34: with both channels of the same capacity, whatever the interleaving
\* of ticks and background iterations, every enqueue of a processed frame
\* finds room for the whole frame in the denoised channel and writes all of
\* it: the free space the enqueue computed covers the frame, and the samples
\* the channel has accepted are all the samples of the frames processed.
C34_ProcessedFrameFitsDenoisedChannel ==
  /\ worker.pc = "enqueueStore" =>
       /\ worker.free >= worker.frame_length
       /\ worker.count = worker.frame_length
  /\ (worker.pc = "idle" /\ worker.init = "ok") =>
       Len(hist.produced) = Len(hist.framed)

\* ------------------------------------------------- the progress of the loop
\*
\* The numbers of samples the worker can have taken out of the raw channel:
\* whole frames only.
FramedCounts == { f * FrameLength : f \in 0 .. (MaxTicks * Quantum) \div FrameLength }

\* The polling loop is running: INIT has set the interval, STOP has not
\* been handled.
Polling == worker.interval # null /\ ~Stopped

\* The first k samples the worker dequeued have all been written, processed
\* or passed, to the denoised channel.
Written(k) ==
  \A i \in 1 .. k :
    \E j \in 1 .. Len(hist.produced) :
      Origin(hist.produced[j]) = Origin(hist.framed[i])

C35_InternalRingsNeverLapped ==
  LET r == inline.rings
  IN  r.bufferSize > 0 =>
        /\ r.fed - r.extracted < r.bufferSize
        /\ r.produced - r.drained < r.bufferSize
        /\ getInputAvailable(r) = r.fed - r.extracted
        /\ getOutputAvailable(r) = r.produced - r.drained
        /\ \A i \in 1 .. Len(r.frames) :
             r.frames[i] = r.extracted - Len(r.frames) + i
        /\ (~r.passed /\ r.output # << >>) =>
             /\ Source(r.output[0]) > r.lastOut
             /\ \A i \in 0 .. RenderQuantum - 1 :
                  /\ Source(r.output[i]) \in 1 .. r.extracted
                  /\ i > 0 => Source(r.output[i]) > Source(r.output[i - 1])

\* C36: once bypass has been switched on and off again, a process() call that
\* is not a pass-through outputs only samples made of input that arrived
\* after bypass was switched off: nothing buffered before is output.
C36_NothingBufferedSurvivesBypass ==
  LET r == inline.rings
  IN  (~r.passed /\ r.output # << >> /\ r.ticks > r.markedAt) =>
        \A i \in 0 .. RenderQuantum - 1 : Source(r.output[i]) > r.mark

\* ------------------------------------------------- the track processor
\*
\* The track processor is at rest: no init or restart is under way and every
\* message posted to the node has been handled.
Settled ==
  /\ inline.filter.pc = "idle"
  /\ inline.port = << >>

\* C37: once the node exists, the messages are delivered and dynamic
\* suppression is off, the model's attenuation limit is the level of the last
\* setSuppressionLevel() call, clamped to [0, 100], whether the call came
\* before or after the node was made or remade.
C37_LastRequestedLevelInForce ==
  (/\ Settled /\ inline.workletNode /\ inline.isInitialized
   /\ ~inline.dynamicSuppressionEnabled
   /\ inline.filter.wanted # NoLevel) =>
     inline.atten_lim = Clamp(inline.filter.wanted, Num(0), Num(100))

\* C38: isEnabled() and isNoiseSuppressionEnabled() return the same value,
\* and once init or restart has returned and the messages are delivered, the
\* worklet's bypass flag is the negation of it.
C38_EnabledFlagsAgree ==
  /\ inline.filter.enabled = ~inline.bypassEnabled
  /\ (Settled /\ inline.filter.completed) =>
       inline.bypass = ~inline.filter.enabled

\* ------------------------------------------------- the shared worker
\*
\* C39: isReady() of a worker-based processor is true only when the
\* registered worker has set up the model and posted SETUP_AWP: not while it
\* is loading, not after it posted ERROR, not after destroy().
C39_ReadyOnlyAfterSetup ==
  \A m \in Managers :
    isReady(m) =>
      /\ main.shared.worker # null
      /\ \E w \in { main.shared.worker } :
           /\ w \in DOMAIN main.shared.workers
           /\ main.shared.workers[w].state = "ready"

\* C40: sendAssetsToWorker() posts INIT only to the worker whose FETCH_WASM
\* it answers, which is then the registered worker; never to null, and never
\* with the channels of a manager that did not create the worker.
C40_InitOnlyToRequestingWorker ==
  \A k \in 1 .. Len(main.shared.sent) :
    \E post \in { main.shared.sent[k] } :
      /\ post.to # null
      /\ post.to = post.requester
      /\ main.shared.workers[post.to].creator = post.manager

====
